---- MODULE Spec2Model ----
(***************************************************************************)
(* State-machine model of IPLScraper (src/paste.py): the MatchState kept   *)
(* in self.match_data and the update cycle that rebuilds it from a fetched *)
(* markup document.  Texts are TLA+ strings handled character by           *)
(* character (Len, SubSeq, \o), so that splitting, trimming, lower-casing  *)
(* and number parsing are computed the way the Python code computes them.  *)
(***************************************************************************)
EXTENDS Integers, Sequences, FiniteSets, TLC

(***************************************************************************)
(* Python string primitives                                                *)
(***************************************************************************)
\* Marker of a node that the document does not contain (select_one -> None)
Absent == "<absent>"

Ch(s, i) == SubSeq(s, i, i)

UpperAlpha == "ABCDEFGHIJKLMNOPQRSTUVWXYZ"
LowerAlpha == "abcdefghijklmnopqrstuvwxyz"
Digits == "0123456789"

\* c in s, for a one-character c
HasCh(s, c) == \E i \in 1..Len(s) : Ch(s, i) = c

CharsOf(s) == {Ch(s, i) : i \in 1..Len(s)}
UpperSet == CharsOf(UpperAlpha)
LowerSet == CharsOf(LowerAlpha)
DigitSet == CharsOf(Digits)

IsLetter(c) == c \in UpperSet \/ c \in LowerSet
IsDigit(c) == c \in DigitSet
\* "_" stands for the no-break space U+00A0 in the texts of the model
Nbsp == "_"
IsSpace(c) == c = " " \/ c = Nbsp

\* sub in s
Contains(s, sub) ==
    \E i \in 1..(Len(s) - Len(sub) + 1) : SubSeq(s, i, i + Len(sub) - 1) = sub

ToLower == [c \in UpperSet |-> Ch(LowerAlpha, CHOOSE i \in 1..26 : Ch(UpperAlpha, i) = c)]
ToUpper == [c \in LowerSet |-> Ch(UpperAlpha, CHOOSE i \in 1..26 : Ch(LowerAlpha, i) = c)]
DigitValue == [c \in DigitSet |-> (CHOOSE i \in 1..10 : Ch(Digits, i) = c) - 1]

LowerCh(c) == IF c \in UpperSet THEN ToLower[c] ELSE c
UpperCh(c) == IF c \in LowerSet THEN ToUpper[c] ELSE c

RECURSIVE LowerRange(_, _, _)
\* the characters a..b of s in lower case, by halves
LowerRange(s, a, b) ==
    IF a > b THEN ""
    ELSE IF a = b THEN LowerCh(Ch(s, a))
    ELSE LowerRange(s, a, (a + b) \div 2) \o LowerRange(s, ((a + b) \div 2) + 1, b)

\* str.lower()
Lower(s) == LowerRange(s, 1, Len(s))

RECURSIVE UpperRange(_, _, _)
UpperRange(s, a, b) ==
    IF a > b THEN ""
    ELSE IF a = b THEN UpperCh(Ch(s, a))
    ELSE UpperRange(s, a, (a + b) \div 2) \o UpperRange(s, ((a + b) \div 2) + 1, b)

\* str.upper()
Upper(s) == UpperRange(s, 1, Len(s))

RECURSIVE LStrip(_)
LStrip(s) == IF Len(s) > 0 /\ IsSpace(Ch(s, 1)) THEN LStrip(SubSeq(s, 2, Len(s))) ELSE s

RECURSIVE RStrip(_)
RStrip(s) ==
    IF Len(s) > 0 /\ IsSpace(Ch(s, Len(s))) THEN RStrip(SubSeq(s, 1, Len(s) - 1)) ELSE s

\* str.strip()
Strip(s) == LStrip(RStrip(s))

\* index of the first occurrence of the character c in s, 0 when there is none
FirstIdx(s, c) ==
    IF HasCh(s, c)
    THEN CHOOSE i \in 1..Len(s) : Ch(s, i) = c /\ \A j \in 1..(i - 1) : Ch(s, j) # c
    ELSE 0

RECURSIVE Split(_, _)
\* str.split(c) for a one-character separator: the sequence of parts
Split(s, c) ==
    IF FirstIdx(s, c) = 0 THEN <<s>>
    ELSE <<SubSeq(s, 1, FirstIdx(s, c) - 1)>>
            \o Split(SubSeq(s, FirstIdx(s, c) + 1, Len(s)), c)

RECURSIVE RemoveCh(_, _)
\* str.replace(c, '') for a one-character c
RemoveCh(s, c) ==
    IF Len(s) = 0 THEN ""
    ELSE (IF Ch(s, 1) = c THEN "" ELSE Ch(s, 1)) \o RemoveCh(SubSeq(s, 2, Len(s)), c)

\* str.split()[0]: the first whitespace-delimited token ("" stands for IndexError)
FirstToken(s) ==
    LET t == LStrip(s)
        sp == {i \in 1..Len(t) : IsSpace(Ch(t, i))}
    IN  IF sp = {} THEN t
        ELSE SubSeq(t, 1, (CHOOSE i \in sp : \A j \in sp : i <= j) - 1)

RECURSIVE StrToNat(_)
\* value of a string of decimal digits
StrToNat(s) ==
    IF Len(s) = 0 THEN 0
    ELSE 10 * StrToNat(SubSeq(s, 1, Len(s) - 1)) + DigitValue[Ch(s, Len(s))]

AllDigits(s) == \A i \in 1..Len(s) : IsDigit(Ch(s, i))

\* int(s) succeeds (decimal digits, surrounding blanks allowed); otherwise ValueError
IsIntLit(s) == Len(Strip(s)) > 0 /\ AllDigits(Strip(s))
IntOf(s) == StrToNat(Strip(s))

\* float(s) succeeds: digits with at most one '.', at least one digit
IsFloatLit(s) ==
    LET t == Strip(s)
    IN  /\ Len(t) > 0
        /\ \A i \in 1..Len(t) : IsDigit(Ch(t, i)) \/ Ch(t, i) = "."
        /\ \E i \in 1..Len(t) : IsDigit(Ch(t, i))
        /\ Cardinality({i \in 1..Len(t) : Ch(t, i) = "."}) <= 1

\* integer part of float(s), for s with IsFloatLit(s)
FloatFloor(s) ==
    LET t == Strip(s)
        k == FirstIdx(t, ".")
    IN  IF k = 0 THEN StrToNat(t) ELSE StrToNat(SubSeq(t, 1, k - 1))

(***************************************************************************)
(* Python dict primitives: a dict is a function whose domain is its keys   *)
(***************************************************************************)
EmptyDict == <<>>

\* d.get(k, default)
Get(d, k, default) == IF k \in DOMAIN d THEN d[k] ELSE default

\* d.update(e), and d[k] = v as Put
DictUpdate(d, e) ==
    [k \in (DOMAIN d) \cup (DOMAIN e) |-> IF k \in DOMAIN e THEN e[k] ELSE d[k]]
Put(d, k, v) == [x \in (DOMAIN d) \cup {k} |-> IF x = k THEN v ELSE d[x]]

\* the value v, evaluated once x is: the statements of a method run one after the
\* other, so what a step leaves is computed before the next step starts
Afterwards(x, v) == IF x = x THEN v ELSE v

TeamKeys == <<"team1", "team2">>
OtherTeam(k) == IF k = "team1" THEN "team2" ELSE "team1"

(***************************************************************************)
(* The MatchState built by the constructor                                 *)
(***************************************************************************)
\* last_updated is the time of the stamp as a number; 0 stands for the ''
\* the constructor stores
InitMatchData ==
    [match_info |-> [title |-> "", venue |-> "", date |-> "", status |-> "",
                     result |-> "", match_id |-> "253699", tournament_id |-> "8307"],
     teams |-> EmptyDict,
     batting_stats |-> EmptyDict,
     bowling_stats |-> EmptyDict,
     commentary |-> <<>>,
     last_updated |-> 0]

(***************************************************************************)
(* parse_match_info                                                        *)
(***************************************************************************)
\* doc.info holds, per region, the text of the first matching node or Absent;
\* dateHoldsScore: the date node has a .team_score descendant
SetIfFound(info, key, text) == IF text # Absent THEN Put(info, key, Strip(text)) ELSE info

parse_match_info(md, doc) ==
    LET i1 == SetIfFound(md.match_info, "title", doc.info.title)
        i2 == SetIfFound(i1, "status", doc.info.status)
        i3 == IF doc.info.date # Absent /\ ~doc.info.dateHoldsScore
              THEN Put(i2, "date", Strip(doc.info.date)) ELSE i2
        i4 == SetIfFound(i3, "player_of_match", doc.info.mom)
        i5 == SetIfFound(i4, "venue", doc.info.venue)
    IN  [md |-> [md EXCEPT !.match_info = i5], raised |-> FALSE]

(***************************************************************************)
(* parse_teams_and_scores                                                  *)
(***************************************************************************)
\* the innings-complete test of a parsed score: lines 206-213
OversRaises(overs) ==
    overs # "" /\ ~Contains(overs, "20") /\ ~IsFloatLit(FirstToken(overs))

\* the test with only its substring part
InningsCompleteByText(overs, wickets) == overs # "" /\ Contains(overs, "20")

InningsComplete(overs, wickets) ==
    \/ overs # "" /\ (Contains(overs, "20") \/ FloatFloor(FirstToken(overs)) >= 20)
    \/ wickets = "10"

\* lines 195-204: the pieces of a score text that is not "yet to bat"
ScoreOf(score_text) == Strip(Split(score_text, "(")[1])
OversOf(score_text) ==
    LET score_parts == Split(score_text, "(")
    IN  IF Len(score_parts) > 1 THEN Strip(RemoveCh(score_parts[2], ")")) ELSE ""
SlashRaises(score) == Contains(score, "/") /\ Len(Split(score, "/")) # 2
RunsOf(score) == IF Contains(score, "/") THEN Split(score, "/")[1] ELSE score
\* the wickets never read from the text
WicketsAlwaysZero(score) == "0"

WicketsOf(score) == IF Contains(score, "/") THEN Split(score, "/")[2] ELSE "0"

IsYetToBat(score_text) == Contains(Lower(score_text), "yet to bat")

YetToBatEntry == [score |-> "Yet to bat", runs |-> "Yet to bat", wickets |-> "0", overs |-> ""]

ParsedEntry(score_text) ==
    LET score == ScoreOf(score_text)
        overs == OversOf(score_text)
        wickets == WicketsOf(score)
    IN  [score |-> score,
         runs |-> RunsOf(score),
         wickets |-> wickets,
         overs |-> overs,
         innings_complete |-> InningsComplete(overs, wickets)]

\* lines 228-236: the won flags; KeyError when the team has no entry
WonStep(teams, team_key, sec) ==
    LET w1 == sec.name # Absent /\ sec.nameWon
        w2 == sec.score # Absent /\ sec.scoreWon
    IN  IF (w1 \/ w2) /\ team_key \notin DOMAIN teams
        THEN [teams |-> teams, raised |-> TRUE]
        ELSE IF w1 \/ w2
        THEN [teams |-> Put(teams, team_key, Put(teams[team_key], "won", TRUE)),
              raised |-> FALSE]
        ELSE [teams |-> teams, raised |-> FALSE]

\* lines 172-177: the team's entry is replaced when the name node is there
NameStep(teams, team_key, sec) ==
    IF sec.name # Absent THEN Put(teams, team_key, [name |-> Strip(sec.name)]) ELSE teams

\* lines 179-236, on the entries as NameStep left them
ScoreStep(named, team_key, sec, score_text) ==
    IF sec.score = Absent THEN WonStep(named, team_key, sec)
    ELSE IF IsYetToBat(score_text)
    THEN IF team_key \notin DOMAIN named
         THEN [teams |-> named, raised |-> TRUE]
         ELSE [teams |-> Put(named, team_key, DictUpdate(named[team_key], YetToBatEntry)),
               raised |-> FALSE]
    ELSE IF \/ SlashRaises(ScoreOf(score_text))
            \/ OversRaises(OversOf(score_text))
            \/ team_key \notin DOMAIN named
    THEN [teams |-> named, raised |-> TRUE]
    ELSE WonStep(Put(named, team_key, DictUpdate(named[team_key], ParsedEntry(score_text))),
                 team_key, sec)

\* one iteration of the loop over team_sections[:2]: lines 170-236
TeamStep(teams, team_key, sec) ==
    ScoreStep(NameStep(teams, team_key, sec), team_key, sec,
              IF sec.score = Absent THEN "" ELSE Strip(sec.score))

RECURSIVE TeamLoop(_, _, _)
\* an exception leaves the loop
TeamNext(r, sections, i) == IF r.raised THEN r ELSE TeamLoop(r.teams, sections, i + 1)

\* the loop from section i on
TeamLoop(teams, sections, i) ==
    IF i > Len(sections) \/ i > 2 THEN [teams |-> teams, raised |-> FALSE]
    ELSE TeamNext(TeamStep(teams, TeamKeys[i], sections[i]), sections, i)

TeamsResult(md, r) == [md |-> [md EXCEPT !.teams = r.teams], raised |-> r.raised]

parse_teams_and_scores(md, doc) == TeamsResult(md, TeamLoop(md.teams, doc.sections, 1))

(***************************************************************************)
(* The document tree, as far as the extractors look at it                  *)
(*   doc.elems   container elements in document order:                     *)
(*                 [id, dataId, cls, parent, pos]   parent: index into     *)
(*                 doc.elems, 0 for an element directly under <body>;      *)
(*                 pos: position in document order                         *)
(*   doc.tables  the <table> elements in document order (none nested):     *)
(*       parent  index into doc.elems of the enclosing element, or 0       *)
(*       pos     position in document order                                *)
(*       cls     classes of the table element                              *)
(*       rows    the <tr> rows: [kind, cells, link, nameCls, strike, foot] *)
(*             kind     "hdr" (tr.ckt_row_hdr), "item" (tr.ckt_row_item)   *)
(*                      or "plain"                                         *)
(*             cells    texts of the <td> cells (no <td>: <<>>)            *)
(*             link     text of the <a> in the first cell, or Absent       *)
(*             nameCls  classes of the first cell                          *)
(*             strike   the first cell holds <s>, <strike> or <del>        *)
(*             foot     text of the .ckt_row_subl/.b_footnote node inside  *)
(*                      the row, or Absent                                 *)
(*   doc.items   the .ckt_commentary_item nodes in document order:         *)
(*       parent   index into doc.elems of the enclosing element, or 0      *)
(*       hasTime  the item holds a .ckt_comm_time node; timeB is the text  *)
(*                of its <b> child (or Absent), rest the str() of its      *)
(*                other children in order                                  *)
(*       hasBall  the item holds a .ckt_comm_ball node; over and result    *)
(*                are the texts of its .ckt_overs and .ckt_ball nodes      *)
(*       txt      text of the item's .ckt_comm_txt node, or Absent         *)
(*   doc.loose   number of .ckt_comm_time/.ckt_comm_ball nodes that lie    *)
(*               in no .ckt_commentary_item                                *)
(***************************************************************************)
RECURSIVE JoinCells(_)
\* row.text: the texts of the cells one after the other
JoinCells(cells) == IF Len(cells) = 0 THEN "" ELSE Head(cells) \o " " \o JoinCells(Tail(cells))

RECURSIVE TableText(_)
\* table.text
TableText(rows) ==
    IF Len(rows) = 0 THEN "" ELSE JoinCells(Head(rows).cells) \o TableText(Tail(rows))

ItemRows(rows) == SelectSeq(rows, LAMBDA r : r.kind = "item")

\* table.select_one('tr.ckt_row_hdr'): Absent-like empty sequence when none
HdrRows(rows) == SelectSeq(rows, LAMBDA r : r.kind = "hdr")

InTotalsOrExtras(player_name) ==
    Contains(Lower(player_name), "total") \/ Contains(Lower(player_name), "extras")

RECURSIVE Ancestors(_, _)
\* indices of the element p and of the elements above it, nearest first
Ancestors(doc, p) ==
    IF p = 0 THEN <<>> ELSE <<p>> \o Ancestors(doc, doc.elems[p].parent)

\* the chain a, read as the elements themselves
AncElems(doc, a) == [i \in 1..Len(a) |-> doc.elems[a[i]]]

\* some ancestor of the table carries class c
UnderClass(doc, t, c) ==
    \E i \in 1..Len(Ancestors(doc, t.parent)) :
        c \in doc.elems[Ancestors(doc, t.parent)[i]].cls

\* the table lies inside element e
Inside(doc, t, e) ==
    \E k \in 1..Len(Ancestors(doc, t.parent)) : Ancestors(doc, t.parent)[k] = e

\* '.ckt_batsmen, .b_scard table'
IsBattingCandidate(doc, t) == "ckt_batsmen" \in t.cls \/ UnderClass(doc, t, "b_scard")

(***************************************************************************)
(* parse_batting_stats                                                     *)
(***************************************************************************)
\* first element matching '#tab_1, .ckt_fltr_1, div[data-id="ckt_fltr_1"]'
BattingTabs(doc) ==
    {i \in 1..Len(doc.elems) :
        \/ doc.elems[i].id = "tab_1"
        \/ "ckt_fltr_1" \in doc.elems[i].cls
        \/ doc.elems[i].dataId = "ckt_fltr_1"}

BattingTables(doc) ==
    LET all == SelectSeq(doc.tables, LAMBDA t : IsBattingCandidate(doc, t))
        tabs == BattingTabs(doc)
        tab == CHOOSE i \in tabs : \A j \in tabs : i <= j
        inTab == SelectSeq(all, LAMBDA t : Inside(doc, t, tab))
    IN  IF tabs # {} /\ Len(inTab) > 0 THEN inTab ELSE all

\* lines 259-271
BattingFirstTeam(md) ==
    LET match_status == Lower(Get(md.match_info, "status", ""))
        team2_name == Lower(Get(Get(md.teams, "team2", EmptyDict), "name", ""))
    IN  IF team2_name # "" /\ Contains(match_status, team2_name)
           /\ Contains(match_status, "elected to field")
        THEN "team2" ELSE "team1"

\* the row read with the generic label winning over the footnote text
BatsmanOfLabelFirst(rows, i) ==
    LET row == rows[i]
        player_name == IF row.link # Absent THEN Strip(row.link) ELSE Strip(row.cells[1])
        next_foot == IF i < Len(rows) /\ rows[i + 1].foot # Absent
                     THEN Strip(rows[i + 1].foot) ELSE ""
        by_text == next_foot # "" /\ ~Contains(Lower(next_foot), "not out")
        by_class == "bold" \in row.nameCls \/ "ckt_dis" \in row.nameCls
        by_strike == row.strike
    IN  IF Len(row.cells) = 0 THEN <<>>
        ELSE IF InTotalsOrExtras(player_name) THEN <<>>
        ELSE IF Len(row.cells) < 6 THEN <<>>
        ELSE << [name |-> player_name,
                 runs |-> Strip(row.cells[2]),
                 balls |-> Strip(row.cells[3]),
                 fours |-> Strip(row.cells[4]),
                 sixes |-> Strip(row.cells[5]),
                 strike_rate |-> Strip(row.cells[6]),
                 dismissal |-> IF by_class \/ by_strike THEN "out"
                               ELSE IF by_text THEN next_foot
                               ELSE "not out",
                 is_out |-> by_text \/ by_class \/ by_strike,
                 row |-> row] >>

\* lines 297-358 for row i of the table: <<>> when the row is skipped
BatsmanOf(rows, i) ==
    LET row == rows[i]
        player_name == IF row.link # Absent THEN Strip(row.link) ELSE Strip(row.cells[1])
        next_foot == IF i < Len(rows) /\ rows[i + 1].foot # Absent
                     THEN Strip(rows[i + 1].foot) ELSE ""
        by_text == next_foot # "" /\ ~Contains(Lower(next_foot), "not out")
        by_class == "bold" \in row.nameCls \/ "ckt_dis" \in row.nameCls
        by_strike == row.strike
    IN  IF Len(row.cells) = 0 THEN <<>>
        ELSE IF InTotalsOrExtras(player_name) THEN <<>>
        ELSE IF Len(row.cells) < 6 THEN <<>>
        ELSE << [name |-> player_name,
                 runs |-> Strip(row.cells[2]),
                 balls |-> Strip(row.cells[3]),
                 fours |-> Strip(row.cells[4]),
                 sixes |-> Strip(row.cells[5]),
                 strike_rate |-> Strip(row.cells[6]),
                 dismissal |-> IF by_text THEN next_foot
                               ELSE IF by_class \/ by_strike THEN "out"
                               ELSE "not out",
                 is_out |-> by_text \/ by_class \/ by_strike,
                 row |-> row] >>

RECURSIVE AllBatsmen(_, _)
AllBatsmen(rows, i) ==
    IF i > Len(rows) THEN <<>>
    ELSE (IF rows[i].kind = "item" THEN BatsmanOf(rows, i) ELSE <<>>)
            \o AllBatsmen(rows, i + 1)

\* batsman_rows.index(b['row']): rows compare by content
RowIndex(batsman_rows, row) ==
    IF \E j \in 1..Len(batsman_rows) : batsman_rows[j] = row
    THEN CHOOSE j \in 1..Len(batsman_rows) :
            batsman_rows[j] = row /\ \A k \in 1..(j - 1) : batsman_rows[k] # row
    ELSE 999

RECURSIVE InsertByKey(_, _, _)
\* b put behind the last element of the sorted sequence whose key is <= b's
InsertByKey(sorted, b, batsman_rows) ==
    IF Len(sorted) = 0 THEN <<b>>
    ELSE IF RowIndex(batsman_rows, sorted[Len(sorted)].row) <= RowIndex(batsman_rows, b.row)
    THEN Append(sorted, b)
    ELSE Append(InsertByKey(SubSeq(sorted, 1, Len(sorted) - 1), b, batsman_rows),
                sorted[Len(sorted)])

RECURSIVE SortByRow(_, _)
\* list.sort(key = index of the row), stable: line 368
SortByRow(all, batsman_rows) ==
    IF Len(all) = 0 THEN <<>>
    ELSE InsertByKey(SortByRow(SubSeq(all, 1, Len(all) - 1), batsman_rows),
                     all[Len(all)], batsman_rows)

\* the two lowest scorers taken as the pair at the crease
CurrentBatsmenLowest(all) ==
    LET Least(excl) ==
            CHOOSE i \in (1..Len(all)) \ excl :
                \A j \in (1..Len(all)) \ excl :
                    \/ IntOf(all[i].runs) < IntOf(all[j].runs)
                    \/ IntOf(all[i].runs) = IntOf(all[j].runs) /\ i <= j
        i1 == Least({})
        i2 == Least({i1})
    IN  IF Len(all) = 0 THEN {}
        ELSE IF Len(all) = 1 THEN {all[1]}
        ELSE {all[i1], all[i2]}

\* sorted(all, key = int(runs), reverse = True)[:2], stable: line 372
CurrentBatsmen(all) ==
    LET Best(excl) ==
            CHOOSE i \in (1..Len(all)) \ excl :
                \A j \in (1..Len(all)) \ excl :
                    \/ IntOf(all[i].runs) > IntOf(all[j].runs)
                    \/ IntOf(all[i].runs) = IntOf(all[j].runs) /\ i <= j
        i1 == Best({})
        i2 == Best({i1})
    IN  IF Len(all) = 0 THEN {}
        ELSE IF Len(all) = 1 THEN {all[1]}
        ELSE {all[i1], all[i2]}

RECURSIVE MarkOut(_, _, _, _, _)
\* lines 373-385
MarkOut(all, i, out_batsmen, wickets_down, current) ==
    IF i > Len(all) THEN all
    ELSE IF all[i].is_out \/ all[i] \in current
    THEN MarkOut(all, i + 1, out_batsmen, wickets_down, current)
    ELSE LET marked == [all EXCEPT ![i].is_out = TRUE, ![i].dismissal = "out"]
         IN  IF out_batsmen + 1 >= wickets_down THEN marked
             ELSE MarkOut(marked, i + 1, out_batsmen + 1, wickets_down, current)

OutCount(all) == Cardinality({i \in 1..Len(all) : all[i].is_out})

MarkSorted(sorted, out_batsmen, wickets_down) ==
    MarkOut(sorted, 1, out_batsmen, wickets_down, CurrentBatsmen(sorted))

\* lines 360-385: the batsmen of one table after the cross-check with wickets
Reconcile(all, batsman_rows, wickets_down) ==
    IF wickets_down > OutCount(all)
    THEN MarkSorted(SortByRow(all, batsman_rows), OutCount(all), wickets_down)
    ELSE all

\* int(team_data.get('wickets', '0')) or int(b['runs']) raises ValueError
ReconcileRaises(all, wickets) ==
    \/ ~IsIntLit(wickets)
    \/ /\ IntOf(wickets) > OutCount(all)
       /\ \E i \in 1..Len(all) : ~IsIntLit(all[i].runs)

\* lines 388-397
BattingEntry(b) ==
    [name |-> b.name, runs |-> b.runs, balls |-> b.balls, fours |-> b.fours,
     sixes |-> b.sixes, strike_rate |-> b.strike_rate,
     dismissal |-> IF b.is_out THEN b.dismissal ELSE "not out"]

\* lines 387-409: the entries stored, the count and the innings status
StoreBatting(md, team_key, entries, overs, batting_count) ==
    [md |-> [md EXCEPT
                !.batting_stats = Put(md.batting_stats, team_key, entries),
                !.match_info = IF overs # "" /\ Contains(overs, "20")
                               THEN Put(md.match_info, "innings_status",
                                        team_key \o "_complete")
                               ELSE md.match_info],
     count |-> IF Len(entries) > 0 THEN batting_count + 1 ELSE batting_count,
     raised |-> FALSE]

EntriesOf(done) == [i \in 1..Len(done) |-> BattingEntry(done[i])]

\* lines 291-409 for a table that is the team's
BattingOfTeam(md, team_key, team_data, all, batsman_rows, batting_count) ==
    IF ReconcileRaises(all, Get(team_data, "wickets", "0"))
    THEN [md |-> [md EXCEPT !.batting_stats = Put(md.batting_stats, team_key, <<>>)],
          count |-> batting_count, raised |-> TRUE]
    ELSE StoreBatting(md, team_key,
                      EntriesOf(Reconcile(all, batsman_rows,
                                          IntOf(Get(team_data, "wickets", "0")))),
                      Get(team_data, "overs", ""), batting_count)

\* the table stored without the look at the team's score
BattingOfTableUnchecked(md, table, team_key, team_data, batting_count) ==
    BattingOfTeam(md, team_key, team_data, AllBatsmen(table.rows, 1),
                  ItemRows(table.rows), batting_count)

\* lines 280-289
BattingOfTable(md, table, team_key, team_data, batting_count) ==
    IF Contains(Lower(Get(team_data, "score", "")), "yet to bat")
    THEN [md |-> md, count |-> batting_count, raised |-> FALSE]
    ELSE BattingOfTeam(md, team_key, team_data, AllBatsmen(table.rows, 1),
                       ItemRows(table.rows), batting_count)

IsBattingTable(hdr) == Len(hdr) > 0 /\ Contains(JoinCells(hdr[1].cells), "BATTERS")

BattingTeamKey(batting_count, first) ==
    IF batting_count = 0 THEN first ELSE OtherTeam(first)

\* one iteration of the loop over batting_tables: lines 275-409
BattingTableStep(md, table, batting_count, first) ==
    IF ~IsBattingTable(HdrRows(table.rows))
    THEN [md |-> md, count |-> batting_count, raised |-> FALSE]
    ELSE BattingOfTable(md, table, BattingTeamKey(batting_count, first),
                        Get(md.teams, BattingTeamKey(batting_count, first), EmptyDict),
                        batting_count)

RECURSIVE BattingLoop(_, _, _, _, _)
BattingNext(r, tables, i, first) ==
    IF r.raised THEN [md |-> r.md, raised |-> TRUE]
    ELSE BattingLoop(r.md, tables, i + 1, r.count, first)

BattingLoop(md, tables, i, batting_count, first) ==
    IF i > Len(tables) THEN [md |-> md, raised |-> FALSE]
    ELSE BattingNext(BattingTableStep(md, tables[i], batting_count, first),
                     tables, i, first)

parse_batting_stats(md, doc) ==
    BattingLoop([md EXCEPT !.batting_stats = EmptyDict], BattingTables(doc), 1, 0,
                BattingFirstTeam(md))

(***************************************************************************)
(* parse_bowling_stats: the candidate tables, lines 427-485                *)
(***************************************************************************)
\* what the loop over bowling_tables reads of a selected node: its rows, the
\* chain of elements above it and its position in the document
TableNode(doc, t) ==
    [rows |-> t.rows, up |-> Ancestors(doc, t.parent), pos |-> t.pos]

RECURSIVE RowsInside(_, _, _)
\* the rows of all tables inside element e, in document order
RowsInside(doc, e, k) ==
    IF k > Len(doc.tables) THEN <<>>
    ELSE (IF Inside(doc, doc.tables[k], e) THEN doc.tables[k].rows ELSE <<>>)
            \o RowsInside(doc, e, k + 1)

\* an element matched by '.ckt_bowlers' is handled like a table
ElemNode(doc, e) ==
    [rows |-> RowsInside(doc, e, 1), up |-> Ancestors(doc, doc.elems[e].parent),
     pos |-> doc.elems[e].pos]

\* x above y in the chain: a[j] is an ancestor of a[i] for i < j
ChainHas(doc, a, inner, outer) ==
    \E i \in 1..Len(a) : \E j \in (i + 1)..Len(a) :
        inner \subseteq doc.elems[a[i]].cls /\ outer \subseteq doc.elems[a[j]].cls

possible_selectors == 8

\* the table matches selector n of possible_selectors (lines 428-440); the
\* tables of a document are not nested, so selectors 7 and 8 match none
TableMatches(doc, t, n) ==
    LET a == Ancestors(doc, t.parent)
    IN  CASE n = 1 -> ChainHas(doc, a, {"ckt_bowlers"}, {"ckt_table_card"})
          [] n = 2 -> UnderClass(doc, t, "ckt_bowlers")
          [] n = 3 -> ChainHas(doc, a, {"b_scard"}, {"ckt_bowlers"})
          [] n = 4 -> ChainHas(doc, a, {"b_scard", "b_scardf"}, {"ckt_bowlers"})
          [] n = 5 -> "ckt_bowlers" \in t.cls \/ UnderClass(doc, t, "b_scard")
          [] n = 6 -> Contains(TableText(t.rows), "BOWLERS")
          [] OTHER -> FALSE

\* scope 0 is the whole document, otherwise the nodes inside element scope
InScopeT(doc, t, scope) == scope = 0 \/ Inside(doc, t, scope)
InScopeE(doc, e, scope) ==
    scope = 0 \/ \E k \in 2..Len(Ancestors(doc, e)) : Ancestors(doc, e)[k] = scope

RECURSIVE SortByPos(_)
SortByPos(nodes) ==
    IF nodes = {} THEN <<>>
    ELSE LET first == CHOOSE x \in nodes : \A y \in nodes : x.pos <= y.pos
         IN  <<first>> \o SortByPos(nodes \ {first})

\* scope.select(selector n), in document order
Select(doc, n, scope) ==
    SortByPos(
        {TableNode(doc, doc.tables[k]) : k \in
            {k \in 1..Len(doc.tables) :
                TableMatches(doc, doc.tables[k], n) /\ InScopeT(doc, doc.tables[k], scope)}}
        \cup
        {ElemNode(doc, e) : e \in
            {e \in 1..Len(doc.elems) :
                n = 5 /\ "ckt_bowlers" \in doc.elems[e].cls /\ InScopeE(doc, e, scope)}})

RECURSIVE SelectAll(_, _, _)
\* the loop over possible_selectors from selector n on
SelectAll(doc, n, scope) ==
    IF n > possible_selectors THEN <<>>
    ELSE Select(doc, n, scope) \o SelectAll(doc, n + 1, scope)

tab_ids == <<"ckt_fltr_0", "ckt_fltr_1", "tab_1">>

\* lines 450-455: div[data-id=tab_id] comes before #tab_id; 0 when neither exists
TabElement(doc, tab_id) ==
    LET byData == {i \in 1..Len(doc.elems) : doc.elems[i].dataId = tab_id}
        byId == {i \in 1..Len(doc.elems) : doc.elems[i].id = tab_id}
    IN  IF byData # {} THEN CHOOSE i \in byData : \A j \in byData : i <= j
        ELSE IF byId # {} THEN CHOOSE i \in byId : \A j \in byId : i <= j
        ELSE 0

RECURSIVE TabTables(_, _)
TabTables(doc, k) ==
    IF k > Len(tab_ids) THEN <<>>
    ELSE (IF TabElement(doc, tab_ids[k]) # 0
          THEN SelectAll(doc, 1, TabElement(doc, tab_ids[k])) ELSE <<>>)
            \o TabTables(doc, k + 1)

HasBowlingKeyword(text) ==
    \/ Contains(text, "bowl") \/ Contains(text, "overs")
    \/ Contains(text, "maidens") \/ Contains(text, "economy")

\* lines 443-485
BowlingTables(doc) ==
    LET inTabs == TabTables(doc, 1)
        inDoc == SelectAll(doc, 1, 0)
        byWord == SelectSeq(doc.tables,
                            LAMBDA t : HasBowlingKeyword(Lower(TableText(t.rows))))
    IN  IF Len(inTabs) > 0 THEN inTabs
        ELSE IF Len(inDoc) > 0 THEN inDoc
        ELSE [k \in 1..Len(byWord) |-> TableNode(doc, byWord[k])]

(***************************************************************************)
(* parse_bowling_stats: which team is bowling, lines 487-548               *)
(***************************************************************************)
\* current_bowling_team = None
NoTeam == "None"

AnyWon(teams) == \E k \in DOMAIN teams : Get(teams[k], "won", FALSE)

MatchCompleted(md) ==
    LET match_status == Lower(Get(md.match_info, "status", ""))
    IN  \/ Contains(match_status, "won by")
        \/ Contains(match_status, "match tied")
        \/ Contains(match_status, "won the match")
        \/ Contains(match_status, "match over")
        \/ AnyWon(md.teams)

\* the resolver with the closed innings looked at before the result
CurrentBowlingTeamByInnings(md) ==
    LET team1_data == Get(md.teams, "team1", EmptyDict)
        team2_data == Get(md.teams, "team2", EmptyDict)
        team1_score == Lower(Get(team1_data, "score", ""))
        team2_score == Lower(Get(team2_data, "score", ""))
        team1_innings_complete == Get(team1_data, "innings_complete", FALSE)
        team2_innings_complete == Get(team2_data, "innings_complete", FALSE)
    IN  IF Contains(team2_score, "yet to bat") THEN "team2"
        ELSE IF Contains(team1_score, "yet to bat") THEN "team1"
        ELSE IF team1_innings_complete /\ ~team2_innings_complete THEN "team1"
        ELSE IF team2_innings_complete /\ ~team1_innings_complete THEN "team2"
        ELSE NoTeam

CurrentBowlingTeam(md) ==
    LET team1_data == Get(md.teams, "team1", EmptyDict)
        team2_data == Get(md.teams, "team2", EmptyDict)
        team1_score == Lower(Get(team1_data, "score", ""))
        team2_score == Lower(Get(team2_data, "score", ""))
        team1_innings_complete == Get(team1_data, "innings_complete", FALSE)
        team2_innings_complete == Get(team2_data, "innings_complete", FALSE)
    IN  IF Contains(team2_score, "yet to bat") THEN "team2"
        ELSE IF Contains(team1_score, "yet to bat") THEN "team1"
        ELSE IF MatchCompleted(md) THEN NoTeam
        ELSE IF team1_innings_complete /\ ~team2_innings_complete THEN "team1"
        ELSE IF team2_innings_complete /\ ~team1_innings_complete THEN "team2"
        ELSE NoTeam

(***************************************************************************)
(* parse_bowling_stats: the loop over the candidate tables, lines 562-735  *)
(***************************************************************************)
header_variations ==
    [overs |-> {"O", "OVERS", "OV"}, maidens |-> {"M", "MO", "MAIDENS"},
     runs |-> {"R", "RUNS", "RNS"}, wickets |-> {"W", "WKTS", "WICKETS"},
     economy |-> {"ECO", "ECON", "ECONOMY"}]

\* lines 580-597: the header row found by class qualifies the table
HeaderQualifies(header_row) ==
    LET header_texts == [i \in 1..Len(header_row.cells) |->
                            Upper(Strip(header_row.cells[i]))]
        Present(col) == \E i \in 1..Len(header_texts) :
                            header_texts[i] \in header_variations[col]
    IN  /\ Len(header_row.cells) >= 6
        /\ \/ Contains(header_texts[1], "BOWLERS")
           \/ Present("overs") /\ Present("wickets") /\ Present("runs")

\* lines 599-610: the first row of the table qualifies it by keywords
FirstRowQualifies(rows) ==
    LET first_row_text == Upper(Strip(JoinCells(rows[1].cells)))
    IN  /\ Len(rows) > 0
        /\ \/ Contains(first_row_text, "BOWLERS") \/ Contains(first_row_text, "BOWLING")
           \/ Contains(first_row_text, "OVERS") \/ Contains(first_row_text, "ECON")

ByHeader(node) ==
    Len(HdrRows(node.rows)) > 0 /\ HeaderQualifies(HdrRows(node.rows)[1])

IsBowlingTable(node) == ByHeader(node) \/ FirstRowQualifies(node.rows)

\* the header_row variable after line 610: <<>> stands for None
HeaderRow(node) ==
    IF ByHeader(node) THEN <<HdrRows(node.rows)[1]>>
    ELSE IF FirstRowQualifies(node.rows) THEN <<node.rows[1]>>
    ELSE IF Len(HdrRows(node.rows)) > 0 THEN <<HdrRows(node.rows)[1]>>
    ELSE <<>>

TabLevels == 5

\* lines 623-636: the tab container among the five nearest ancestors; "" for None
TabParent(doc, node) ==
    LET IsTab(e) == \/ doc.elems[e].id \in {"tab_1", "tab_2"}
                    \/ doc.elems[e].dataId \in {"ckt_fltr_0", "ckt_fltr_1"}
        levels == {i \in 1..Len(node.up) : i <= TabLevels /\ IsTab(node.up[i])}
        hit == node.up[CHOOSE i \in levels : \A j \in levels : i <= j]
    IN  IF levels = {} THEN ""
        ELSE IF doc.elems[hit].id # "" THEN doc.elems[hit].id
        ELSE doc.elems[hit].dataId

\* lines 638-648
BowlingTeamOf(doc, node, bowling_count) ==
    IF TabParent(doc, node) # ""
    THEN IF TabParent(doc, node) \in {"tab_1", "ckt_fltr_0"} THEN "team2" ELSE "team1"
    ELSE IF bowling_count = 0 THEN "team2" ELSE "team1"

RECURSIVE RemoveFirst(_, _)
\* list.remove(x): the first element equal to x goes
RemoveFirst(seq, x) ==
    IF Len(seq) = 0 THEN <<>>
    ELSE IF Head(seq) = x THEN Tail(seq)
    ELSE <<Head(seq)>> \o RemoveFirst(Tail(seq), x)

\* lines 659-666
BowlerRows(node) ==
    IF Len(ItemRows(node.rows)) > 0 THEN ItemRows(node.rows)
    ELSE IF Len(HeaderRow(node)) > 0 THEN RemoveFirst(node.rows, HeaderRow(node)[1])
    ELSE node.rows

RECURSIVE ReplaceCh(_, _, _)
\* str.replace(c, d) for one-character c and d
ReplaceCh(s, c, d) ==
    IF Len(s) = 0 THEN ""
    ELSE (IF Ch(s, 1) = c THEN d ELSE Ch(s, 1)) \o ReplaceCh(SubSeq(s, 2, Len(s)), c, d)

RECURSIVE DropLeadingNonAlpha(_)
\* re.sub(r'^\s*[^a-zA-Z]+', '', name)
DropLeadingNonAlpha(s) ==
    IF Len(s) > 0 /\ ~IsLetter(Ch(s, 1)) THEN DropLeadingNonAlpha(SubSeq(s, 2, Len(s)))
    ELSE s

RECURSIVE DropTrailingNonAlpha(_)
\* re.sub(r'[^a-zA-Z\)]+\s*$', '', name)
DropTrailingNonAlpha(s) ==
    IF Len(s) > 0 /\ ~IsLetter(Ch(s, Len(s))) /\ Ch(s, Len(s)) # ")"
    THEN DropTrailingNonAlpha(SubSeq(s, 1, Len(s) - 1))
    ELSE s

CloseParen(name) == IF HasCh(name, "(") /\ ~HasCh(name, ")") THEN name \o ")" ELSE name

\* lines 677-692
CleanBowlerName(raw) ==
    DropTrailingNonAlpha(DropLeadingNonAlpha(CloseParen(ReplaceCh(Strip(raw), Nbsp, " "))))

\* lines 673-720 for one row: <<>> when the row gives no bowler
BowlerOf(row) ==
    LET player_name == CleanBowlerName(IF row.link # Absent THEN row.link ELSE row.cells[1])
    IN  IF Len(row.cells) = 0 THEN <<>>
        ELSE IF InTotalsOrExtras(player_name) THEN <<>>
        ELSE IF Len(row.cells) < 6 THEN <<>>
        ELSE << [name |-> player_name,
                 overs |-> Strip(row.cells[2]),
                 maidens |-> Strip(row.cells[3]),
                 runs |-> Strip(row.cells[4]),
                 wickets |-> Strip(row.cells[5]),
                 economy |-> Strip(row.cells[6])] >>

\* lines 751-763
LastIndexOf(bowlers, name) ==
    CHOOSE i \in 1..Len(bowlers) :
        bowlers[i].name = name /\ \A j \in (i + 1)..Len(bowlers) : bowlers[j].name # name

\* the bowler appended whether or not the name is in the list
AppendBowler(bowling_stats, team_key, bowler_data) ==
    Put(bowling_stats, team_key, Append(bowling_stats[team_key], bowler_data))

_add_bowler_if_not_exists(bowling_stats, team_key, bowler_data) ==
    LET bowlers == bowling_stats[team_key]
    IN  IF \E i \in 1..Len(bowlers) : bowlers[i].name = bowler_data.name
        THEN Put(bowling_stats, team_key,
                 [bowlers EXCEPT ![LastIndexOf(bowlers, bowler_data.name)] = bowler_data])
        ELSE Put(bowling_stats, team_key, Append(bowlers, bowler_data))

RECURSIVE AddBowlers(_, _, _, _)
\* the loop over bowler_rows: lines 670-728; acc.log lists the calls of
\* _add_bowler_if_not_exists in order
AddBowler(acc, team_key, found) ==
    IF Len(found) > 0
    THEN [stats |-> _add_bowler_if_not_exists(acc.stats, team_key, found[1]),
          log |-> Append(acc.log, [team |-> team_key, bowler |-> found[1]])]
    ELSE acc

AddBowlers(acc, team_key, rows, i) ==
    IF i > Len(rows) THEN acc
    ELSE Afterwards(acc, AddBowlers(AddBowler(acc, team_key, BowlerOf(rows[i])),
                                    team_key, rows, i + 1))

\* lines 730-732: the count goes up when the team's list is not empty
Counted(added, bowling_team, bowling_count) ==
    [acc |-> added,
     count |-> IF Len(added.stats[bowling_team]) > 0
               THEN bowling_count + 1 ELSE bowling_count]

\* a table read whatever team the resolver named
BowlingOfAnyTeam(acc, node, bowling_team, bowling_count, current_bowling_team) ==
    Counted(AddBowlers(acc, bowling_team, BowlerRows(node), 1), bowling_team, bowling_count)

\* lines 652-732 for a table that qualifies and is assigned to bowling_team
BowlingOfTeam(acc, node, bowling_team, bowling_count, current_bowling_team) ==
    IF current_bowling_team # NoTeam /\ bowling_team # current_bowling_team
    THEN [acc |-> acc, count |-> bowling_count]
    ELSE Counted(AddBowlers(acc, bowling_team, BowlerRows(node), 1),
                 bowling_team, bowling_count)

\* one iteration of the loop over bowling_tables
BowlingTableStep(doc, acc, node, bowling_count, current_bowling_team) ==
    IF ~IsBowlingTable(node) THEN [acc |-> acc, count |-> bowling_count]
    ELSE BowlingOfTeam(acc, node, BowlingTeamOf(doc, node, bowling_count),
                       bowling_count, current_bowling_team)

RECURSIVE BowlingLoop(_, _, _, _, _, _)
BowlingNext(doc, r, nodes, i, current_bowling_team) ==
    Afterwards(r, BowlingLoop(doc, r.acc, nodes, i + 1, r.count, current_bowling_team))

BowlingLoop(doc, acc, nodes, i, bowling_count, current_bowling_team) ==
    IF i > Len(nodes) THEN acc
    ELSE BowlingNext(doc,
                     BowlingTableStep(doc, acc, nodes[i], bowling_count,
                                      current_bowling_team),
                     nodes, i, current_bowling_team)

(***************************************************************************)
(* _infer_missing_bowling_stats                                            *)
(***************************************************************************)
Placeholder(team_data) ==
    [name |-> "Bowling data not available",
     overs |-> Get(team_data, "overs", "0.0"),
     maidens |-> "0",
     runs |-> Get(team_data, "runs", "0"),
     wickets |-> Get(team_data, "wickets", "0"),
     economy |-> "0.00",
     inferred |-> TRUE]

\* the placeholder of the team bowling to batting_team, when that team has batted
InferFor(md, stats, batting_team) ==
    LET team_data == Get(md.teams, batting_team, EmptyDict)
        score == Lower(Get(team_data, "score", ""))
    IN  IF /\ score # "" /\ ~Contains(score, "yet to bat")
           /\ Len(Get(md.batting_stats, batting_team, <<>>)) > 0
        THEN Put(stats, OtherTeam(batting_team), <<Placeholder(team_data)>>)
        ELSE stats

_infer_missing_bowling_stats(md, stats) ==
    InferFor(md, InferFor(md, stats, "team1"), "team2")

EmptyBowling == [k \in {"team1", "team2"} |-> <<>>]

\* lines 416-422 and 562-735: the lists after the loop, with the log of the
\* bowlers handed to _add_bowler_if_not_exists
\* the loop started on the lists the state held before, not on empty lists
BowlingParsedOnOldLists(md, doc) ==
    BowlingLoop(doc, [stats |-> [k \in {"team1", "team2"} |->
                                    Get(md.bowling_stats, k, <<>>)],
                      log |-> <<>>],
                BowlingTables(doc), 1, 0, CurrentBowlingTeam(md))

BowlingParsed(md, doc) ==
    BowlingLoop(doc, [stats |-> EmptyBowling, log |-> <<>>], BowlingTables(doc), 1, 0,
                CurrentBowlingTeam(md))

\* lines 737-740, on the lists the loop left; the placeholders read the batting
\* lists of this update
BowlingResult(md, parsed) ==
    [md |-> [md EXCEPT !.bowling_stats =
                IF \A k \in DOMAIN parsed : Len(parsed[k]) = 0
                THEN _infer_missing_bowling_stats(md, parsed)
                ELSE parsed],
     raised |-> FALSE]

parse_bowling_stats(md, doc) == BowlingResult(md, BowlingParsed(md, doc).stats)

(***************************************************************************)
(* parse_commentary                                                        *)
(***************************************************************************)
CommentaryLimit == 20

\* select_one('#tab_2, .ckt_gamecomm'): 0 when there is none
CommentarySection(doc) ==
    LET found == {i \in 1..Len(doc.elems) :
                    doc.elems[i].id = "tab_2" \/ "ckt_gamecomm" \in doc.elems[i].cls}
    IN  IF found = {} THEN 0 ELSE CHOOSE i \in found : \A j \in found : i <= j

\* commentary_section.select('.ckt_commentary_item')
CommentaryItems(doc) ==
    LET sec == CommentarySection(doc)
    IN  IF sec = 0 THEN doc.items
        ELSE SelectSeq(doc.items,
                LAMBDA it : \E k \in 1..Len(Ancestors(doc, it.parent)) :
                                Ancestors(doc, it.parent)[k] = sec)

\* number of nodes soup.select('.ckt_comm_time, .ckt_comm_ball') returns
InnerNodes(doc) ==
    doc.loose
    + Cardinality({i \in 1..Len(doc.items) : doc.items[i].hasTime})
    + Cardinality({i \in 1..Len(doc.items) : doc.items[i].hasBall})

RECURSIVE ConcatStripped(_)
ConcatStripped(children) ==
    IF Len(children) = 0 THEN ""
    ELSE Strip(Head(children)) \o ConcatStripped(Tail(children))

TextOr(node, default) == IF node = Absent THEN default ELSE Strip(node)

\* lines 839-880 for one item: <<>> when it has neither shape
CommentaryEntry(item) ==
    IF item.hasTime
    THEN << [type |-> "general",
             time |-> TextOr(item.timeB, ""),
             text |-> LStrip(ConcatStripped(item.rest))] >>
    ELSE IF item.hasBall
    THEN << [type |-> "ball",
             over |-> TextOr(item.over, ""),
             result |-> TextOr(item.result, ""),
             text |-> TextOr(item.txt, "")] >>
    ELSE <<>>

RECURSIVE CommentaryOfAll(_, _)
\* the loop without the [:20] slice
CommentaryOfAll(items, i) ==
    IF i > Len(items) THEN <<>>
    ELSE CommentaryEntry(items[i]) \o CommentaryOfAll(items, i + 1)

RECURSIVE CommentaryOf(_, _)
\* the loop over commentary_items[:20]: lines 838-880
CommentaryOf(items, i) ==
    IF i > Len(items) \/ i > CommentaryLimit THEN <<>>
    ELSE CommentaryEntry(items[i]) \o CommentaryOf(items, i + 1)

\* the nodes of the alternative selectors hold no node of either shape, so a
\* list taken from them yields no entry
\* the list reset without the early return of lines 830-832
CommentaryReset(md, doc, commentary_items) ==
    [md |-> [md EXCEPT !.commentary = CommentaryOf(commentary_items, 1)], raised |-> FALSE]

\* the entries of the document put behind those already in the list
CommentaryAppended(md, doc, commentary_items) ==
    IF Len(commentary_items) = 0 /\ InnerNodes(doc) = 0
    THEN [md |-> md, raised |-> FALSE]
    ELSE [md |-> [md EXCEPT !.commentary = @ \o CommentaryOf(commentary_items, 1)],
          raised |-> FALSE]

\* lines 826-880: nothing found leaves the list alone
CommentaryResult(md, doc, commentary_items) ==
    IF Len(commentary_items) = 0 /\ InnerNodes(doc) = 0
    THEN [md |-> md, raised |-> FALSE]
    ELSE [md |-> [md EXCEPT !.commentary = CommentaryOf(commentary_items, 1)],
          raised |-> FALSE]

parse_commentary(md, doc) == CommentaryResult(md, doc, CommentaryItems(doc))

(***************************************************************************)
(* validate_data                                                           *)
(***************************************************************************)
\* lines 946-962: the entries at the first index of each name, in that order
RECURSIVE UniqueBowlers(_, _)
UniqueBowlers(bowlers, i) ==
    IF i > Len(bowlers) THEN <<>>
    ELSE (IF \E j \in 1..(i - 1) : bowlers[j].name = bowlers[i].name
          THEN <<>> ELSE <<bowlers[i]>>)
            \o UniqueBowlers(bowlers, i + 1)

\* lines 965-972
FixName(name) == IF HasCh(name, "(") /\ ~HasCh(name, ")") THEN name \o ")" ELSE name

FixNames(batsmen) == [i \in 1..Len(batsmen) |-> [batsmen[i] EXCEPT !.name = FixName(@)]]

validate_data(md) ==
    [md EXCEPT
        !.bowling_stats = [k \in DOMAIN md.bowling_stats |->
                              UniqueBowlers(md.bowling_stats[k], 1)],
        !.batting_stats = [k \in DOMAIN md.batting_stats |->
                              FixNames(md.batting_stats[k])]]

(***************************************************************************)
(* parse_html and update                                                   *)
(***************************************************************************)
\* one extractor call of parse_html: the extractor catches what it raises, so
\* the next one runs on whatever state it left
\* an extractor that does not run once an earlier one has raised
StageAbort(acc, name, r) ==
    IF acc.raised # {} THEN acc
    ELSE [md |-> r.md,
          raised |-> IF r.raised THEN {name} ELSE {},
          ran |-> Append(acc.ran, name)]

Stage(acc, name, r) ==
    Afterwards(acc,
    [md |-> r.md,
     raised |-> IF r.raised THEN acc.raised \cup {name} ELSE acc.raised,
     ran |-> Append(acc.ran, name)])

\* lines 897-901, one call each
InfoStage(acc, doc) == Stage(acc, "match_info", parse_match_info(acc.md, doc))
TeamsStage(acc, doc) == Stage(acc, "teams", parse_teams_and_scores(acc.md, doc))
BattingStage(acc, doc) == Stage(acc, "batting", parse_batting_stats(acc.md, doc))
BowlingStage(acc, doc) == Stage(acc, "bowling", parse_bowling_stats(acc.md, doc))
CommentaryStage(acc, doc) == Stage(acc, "commentary", parse_commentary(acc.md, doc))

\* match_data as parse_html finds it when it calls the bowling extractor
BeforeBowling(md, doc) ==
    BattingStage(TeamsStage(InfoStage([md |-> md, raised |-> {}, ran |-> <<>>], doc),
                            doc), doc)

parse_html(md, doc) ==
    CommentaryStage(BowlingStage(BeforeBowling(md, doc), doc), doc)

\* update(): what it leaves in match_data and what it returns, for the fetch
\* result html at time t
\* lines 919-925: the stamp, the validator and the return value
Finish(a, t) ==
    [md |-> validate_data([a.md EXCEPT !.last_updated = t]),
     raised |-> a.raised,
     ran |-> a.ran \o <<"stamp", "validate">>,
     ret |-> "match_data"]

\* an update that stamps the time whatever the fetch gave
UpdateStamping(md, fetched, t) ==
    IF fetched.kind # "Markup"
    THEN [md |-> [md EXCEPT !.last_updated = t], raised |-> {}, ran |-> <<>>, ret |-> "None"]
    ELSE Finish(parse_html(md, fetched), t)

UpdateResult(md, fetched, t) ==
    IF fetched.kind # "Markup"
    THEN [md |-> md, raised |-> {}, ran |-> <<>>, ret |-> "None"]
    ELSE Finish(parse_html(md, fetched), t)

(***************************************************************************)
(* State                                                                   *)
(*   match_data  self.match_data of the scraper                            *)
(*   now         the clock: number of update() calls so far                *)
(*   html        what fetch_data returned to the last update()             *)
(*   raised      the extractors that raised (and caught) in the last call  *)
(*   ran         the steps of the last call, in the order they ran         *)
(*   ret         what the last update() returned                           *)
(***************************************************************************)
VARIABLES match_data, now, html, raised, ran, ret

(***************************************************************************)
(* State of the REST layer (src/app.py)                                    *)
(*   active_scrapers  the module-level dict: match key -> scraper          *)
(*   scrapers         match_data of every IPLScraper object created so     *)
(*                    far; an object is named by the number of the request *)
(*                    that constructed it                                  *)
(*   settled          per scraper, match_data as the last update() call    *)
(*                    that returned left it (as constructed before any)    *)
(*   threads          the request each server thread is handling: where it *)
(*                    stands in its handler and its local variables        *)
(*   started          number of requests received so far                   *)
(***************************************************************************)
VARIABLES active_scrapers, scrapers, settled, threads, started

core_vars == <<match_data, now, html, raised, ran, ret>>
api_vars == <<active_scrapers, scrapers, settled, threads, started>>
vars == <<match_data, now, html, raised, ran, ret,
          active_scrapers, scrapers, settled, threads, started>>

\* server threads handling requests at the same time, and requests in a run
NumThreads == 2
MaxRequests == 2

Idle ==
    [pc |-> "idle", kind |-> "", refresh |-> FALSE, rid |-> 0, scraper |-> 0,
     target |-> 0, doc |-> 0, cont |-> "", resp |-> <<>>, between |-> <<>>]

\* active_scrapers = {} at import; no request yet
ApiInit ==
    /\ active_scrapers = EmptyDict
    /\ scrapers = EmptyDict
    /\ settled = EmptyDict
    /\ threads = [t \in 1..NumThreads |-> Idle]
    /\ started = 0

MaxUpdates == 3

NoInfo ==
    [title |-> Absent, status |-> Absent, date |-> Absent, dateHoldsScore |-> FALSE,
     mom |-> Absent, venue |-> Absent]

Blank ==
    [kind |-> "Markup", info |-> NoInfo, sections |-> <<>>, elems |-> <<>>,
     tables |-> <<>>, items |-> <<>>, loose |-> 0]

\* fetch_data returned None (request failed) or an empty body
NoneHtml == [Blank EXCEPT !.kind = "None"]
EmptyHtml == [Blank EXCEPT !.kind = "Empty"]

Init ==
    /\ match_data = InitMatchData
    /\ now = 0
    /\ html = [Blank EXCEPT !.kind = "Init"]
    /\ raised = {}
    /\ ran = <<>>
    /\ ret = "Init"
    /\ ApiInit

update(h) ==
    /\ now < MaxUpdates
    /\ now' = now + 1
    /\ html' = h
    /\ \E r \in {UpdateResult(match_data, h, now + 1)} :
        /\ match_data' = r.md
        /\ raised' = r.raised
        /\ ran' = r.ran
        /\ ret' = r.ret
    /\ UNCHANGED api_vars

(***************************************************************************)
(* Documents: team sections                                                *)
(***************************************************************************)
Sec(name, score) == [name |-> name, nameWon |-> FALSE, score |-> score, scoreWon |-> FALSE]

\* the score texts "R/W (O)", "R (O)", "R/W" and "R" built from their parts
FormRWO(R, W, O) == R \o "/" \o W \o " (" \o O \o ")"
FormRO(R, O) == R \o " (" \o O \o ")"
FormRW(R, W) == R \o "/" \o W
RunsTexts == {"185"}
WicketsTexts == {"6", "10"}
OversTexts == {"15.2", "20.0", "50.0"}

WellFormedScores ==
    {FormRWO(R, W, O) : R \in RunsTexts, W \in WicketsTexts, O \in OversTexts}
    \cup {FormRO(R, O) : R \in RunsTexts, O \in OversTexts}
    \cup {FormRW(R, W) : R \in RunsTexts, W \in WicketsTexts}
    \cup RunsTexts

YetToBatScores == {"Yet to bat", " YET TO BAT "}

\* texts on which the extractor raises: two '/', overs that are no number
MalformedScores == {"1/2/3 (5.0)", "99/3 (abc)"}

ScoreTexts == WellFormedScores \cup YetToBatScores \cup MalformedScores \cup {Absent}

TeamSections(name) == {Sec(n, t) : n \in {name, Absent}, t \in ScoreTexts}

ScoreDocs ==
    {[Blank EXCEPT !.sections = <<s1, Sec("Chennai", "Yet to bat")>>] :
        s1 \in TeamSections("Mumbai")}
    \cup {[Blank EXCEPT !.sections = <<Sec("Mumbai", "185/6 (20.0)"), s2>>] :
        s2 \in TeamSections("Chennai")}
    \cup {[Blank EXCEPT !.sections = <<[Sec("Mumbai", "185/6 (20.0)") EXCEPT !.nameWon = TRUE],
                                       [Sec("Chennai", "150/10 (18.2)") EXCEPT !.scoreWon = TRUE],
                                       Sec("Delhi", "12/0 (1.0)")>>],
          [Blank EXCEPT !.sections = <<Sec(Absent, "Yet to bat"), Sec(Absent, "45/2")>>],
          [Blank EXCEPT !.sections = <<Sec("Mumbai", Absent)>>]}

NextScore == \E h \in ScoreDocs \cup {NoneHtml, EmptyHtml} : update(h)

SpecScore == Init /\ [][NextScore]_vars

(***************************************************************************)
(* Documents: scorecards and commentary                                    *)
(***************************************************************************)
Elem(id, dataId, cls, parent, pos) ==
    [id |-> id, dataId |-> dataId, cls |-> cls, parent |-> parent, pos |-> pos]

Tbl(parent, pos, cls, rows) == [parent |-> parent, pos |-> pos, cls |-> cls, rows |-> rows]

Row(kind, cells) ==
    [kind |-> kind, cells |-> cells, link |-> Absent, nameCls |-> {}, strike |-> FALSE,
     foot |-> Absent]

\* the row under a batsman that holds the dismissal text
FootRow(text) == [Row("plain", <<text>>) EXCEPT !.foot = text]

\* a number below 100 as a text
NumText(n) ==
    IF n < 10 THEN Ch(Digits, n + 1)
    ELSE Ch(Digits, (n \div 10) + 1) \o Ch(Digits, (n % 10) + 1)

BallItem(n) ==
    [parent |-> 1, hasTime |-> FALSE, timeB |-> Absent, rest |-> <<>>, hasBall |-> TRUE,
     over |-> NumText(n), result |-> "4", txt |-> " four "]

TimeItem(n) ==
    [parent |-> 1, hasTime |-> TRUE, timeB |-> NumText(n), rest |-> <<" ", "Drinks ">>,
     hasBall |-> FALSE, over |-> Absent, result |-> Absent, txt |-> Absent]

\* an item of neither shape
PlainItem ==
    [parent |-> 1, hasTime |-> FALSE, timeB |-> Absent, rest |-> <<>>, hasBall |-> FALSE,
     over |-> Absent, result |-> Absent, txt |-> "Welcome"]

BattingHeader == Row("hdr", <<"BATTERS", "R", "B", "4s", "6s", "SR">>)
BowlingHeader == Row("hdr", <<"BOWLERS", "O", "M", "R", "W", "ECON">>)

Batsman(name, runs) == Row("item", <<name, runs, "20", "1", "0", "100.0">>)
Bowler(name, overs, runs, wickets) == Row("item", <<name, overs, "0", runs, wickets, "6.0">>)

MumbaiBatting ==
    <<BattingHeader,
      [Batsman(" R. Sharma (c", "45") EXCEPT !.link = "R. Sharma (c"],
      FootRow("c Dhoni b Chahar"),
      Batsman("Al (c) (wk", "30"),
      Batsman("Kishan", "10"),
      Batsman("Pollard (", "3"),
      Row("item", <<"Extras", "5">>),
      Row("item", <<"Total", "88/2", "", "", "", "">>)>>

ChennaiBatting ==
    <<BattingHeader,
      [Batsman("Dhoni (c)(wk", "21") EXCEPT !.strike = TRUE],
      Batsman("Gaikwad", "24")>>

\* a batsman whose runs cell holds no number
UnreadBatting ==
    <<BattingHeader, Batsman("Kishan", "10"), Batsman("Pollard", "-"), Batsman("Tilak", "7")>>

ChennaiBowling ==
    <<BowlingHeader,
      Bowler("Chahar", "2", "14", "0"),
      Bowler("1. Jadeja (vc 2", "3", "20", "1"),
      Bowler("Chahar", "4", "31", "1"),
      Row("item", <<"Total", "9.1", "0", "88", "2", "9.6">>)>>

ChennaiBowlingLater ==
    <<BowlingHeader, Bowler("Pathirana", "4", "40", "2"), Bowler("Chahar", "4", "36", "2")>>

MumbaiBowling ==
    <<BowlingHeader, Bowler("Bumrah", "1", "4", "1"), Bowler("Boult", "1", "9", "0"),
      Bowler("Bumrah", "2", "11", "1")>>

CommentaryTab == Elem("tab_2", "", {"ckt_gamecomm"}, 0, 1)

LiveInfo == [NoInfo EXCEPT !.title = " IPL 2025 ", !.status = "Mumbai elected to bat"]
DoneInfo == [NoInfo EXCEPT !.status = "Mumbai won by 20 runs", !.mom = "R. Sharma"]

\* first innings under way: one batting table, the bowlers' table inside a
\* .ckt_bowlers block of the first tab
FirstInnings ==
    [Blank EXCEPT
        !.info = LiveInfo,
        !.sections = <<Sec("Mumbai", "88/2 (9.1)"), Sec("Chennai", "Yet to bat")>>,
        !.elems = <<CommentaryTab,
                    Elem("", "ckt_fltr_0", {}, 0, 2),
                    Elem("", "", {"b_scard"}, 2, 3),
                    Elem("", "", {"ckt_bowlers"}, 2, 5)>>,
        !.tables = <<Tbl(3, 4, {"ckt_batsmen"}, MumbaiBatting),
                     Tbl(4, 6, {}, ChennaiBowling)>>,
        !.items = <<TimeItem(1), BallItem(2), PlainItem>>]

\* second innings under way: each innings in its tab
SecondInnings ==
    [Blank EXCEPT
        !.info = LiveInfo,
        !.sections = <<Sec("Mumbai", "185/6 (20.0)"), Sec("Chennai", "45/1 (5.0)")>>,
        !.elems = <<CommentaryTab,
                    Elem("", "ckt_fltr_0", {}, 0, 2),
                    Elem("", "", {"ckt_bowlers"}, 2, 4),
                    Elem("", "ckt_fltr_1", {}, 0, 6),
                    Elem("", "", {"ckt_bowlers"}, 4, 8)>>,
        !.tables = <<Tbl(2, 3, {"ckt_batsmen"}, MumbaiBatting),
                     Tbl(3, 5, {}, ChennaiBowlingLater),
                     Tbl(4, 7, {"ckt_batsmen"}, ChennaiBatting),
                     Tbl(5, 9, {}, MumbaiBowling)>>,
        !.items = <<BallItem(3)>>]

\* the match is over; the bowlers' tables stand in no tab
Finished ==
    [Blank EXCEPT
        !.info = DoneInfo,
        !.sections = <<[Sec("Mumbai", "185/6 (20.0)") EXCEPT !.nameWon = TRUE],
                       Sec("Chennai", "165/10 (19.2)")>>,
        !.elems = <<CommentaryTab, Elem("", "", {"ckt_bowlers"}, 0, 2)>>,
        !.tables = <<Tbl(0, 3, {"ckt_batsmen"}, MumbaiBatting),
                     Tbl(2, 4, {}, ChennaiBowling),
                     Tbl(2, 5, {}, ChennaiBowlingLater),
                     Tbl(0, 6, {}, MumbaiBowling)>>]

\* the first team's score text has two '/'
TwoSlashes ==
    [FirstInnings EXCEPT
        !.sections = <<Sec("Mumbai", "1/2/3 (5.0)"), Sec("Chennai", "Yet to bat")>>]

\* the wickets part of the score is no number
DeclaredScore ==
    [FirstInnings EXCEPT
        !.sections = <<Sec("Mumbai", "120/2d (15.0)"), Sec("Chennai", "Yet to bat")>>,
        !.items = <<>>]

\* a runs cell is no number and fewer dismissals are seen than wickets are down
UnreadRuns ==
    [Blank EXCEPT
        !.sections = <<Sec("Mumbai", "17/1 (3.0)"), Sec("Chennai", "Yet to bat")>>,
        !.tables = <<Tbl(0, 1, {"ckt_batsmen"}, UnreadBatting)>>]

\* a scorecard without commentary
NoCommentary == [FirstInnings EXCEPT !.items = <<>>]

\* no commentary item, but a .ckt_comm_ball node outside any item
LooseCommentary == [NoCommentary EXCEPT !.loose = 1]

MaxItems == 22

ItemCounts == {1, CommentaryLimit, CommentaryLimit + 1, MaxItems}

\* a page with n commentary items, general notes and balls in turn
CommentaryDoc(n) ==
    [Blank EXCEPT
        !.elems = <<CommentaryTab>>,
        !.items = [i \in 1..n |-> IF i % 2 = 1 THEN BallItem(i) ELSE TimeItem(i)]]

\* six batsmen, the first four with a dismissal text, the two lowest scorers
\* without one
LateOrderOpen ==
    <<BattingHeader,
      Batsman("Sharma", "40"), FootRow("c Dhoni b Chahar"),
      Batsman("Kishan", "35"), FootRow("b Jadeja"),
      Batsman("Yadav", "20"), FootRow("lbw b Chahar"),
      Batsman("Tilak", "15"), FootRow("run out"),
      Batsman("Pollard", "5"),
      Batsman("Bumrah", "2")>>

\* six batsmen, the two highest scorers without a dismissal text, the other
\* four with one
TopOrderOpen ==
    <<BattingHeader,
      Batsman("Sharma", "60"),
      Batsman("Kishan", "50"),
      Batsman("Yadav", "20"), FootRow("lbw b Chahar"),
      Batsman("Tilak", "15"), FootRow("run out"),
      Batsman("Pollard", "5"), FootRow("b Jadeja"),
      Batsman("Bumrah", "2"), FootRow("c Dhoni b Chahar")>>

\* an innings closed at six wickets down, the other team still to bat
SixDown(rows) ==
    [Blank EXCEPT
        !.sections = <<Sec("Mumbai", "185/6 (20.0)"), Sec("Chennai", "Yet to bat")>>,
        !.tables = <<Tbl(0, 1, {"ckt_batsmen"}, rows)>>]

\* the team of the first section has not batted, the other one has: the only
\* batting table is counted as the first team's
FirstTeamWaiting ==
    [Blank EXCEPT
        !.sections = <<Sec("Mumbai", "YET TO BAT"), Sec("Chennai", "45/1 (5.0)")>>,
        !.tables = <<Tbl(0, 1, {"ckt_batsmen"}, ChennaiBatting)>>]

\* both teams with a score, neither innings closed, the match not over: a
\* bowlers' table in a .ckt_bowlers block under the element tab
BothBatting(tab) ==
    [Blank EXCEPT
        !.sections = <<Sec("Mumbai", "88/2 (9.1)"), Sec("Chennai", "45/1 (5.0)")>>,
        !.elems = <<tab, Elem("", "", {"ckt_bowlers"}, 1, 2)>>,
        !.tables = <<Tbl(2, 3, {}, MumbaiBowling)>>]

\* the first tab, the second tab, and a first tab that also carries an id
FirstTab == Elem("", "ckt_fltr_0", {}, 0, 1)
SecondTab == Elem("", "ckt_fltr_1", {}, 0, 1)
FirstTabWithId == Elem("innings", "ckt_fltr_0", {}, 0, 1)

\* before the start: both teams yet to bat, and a bowlers' table under the
\* second tab
BeforeStart ==
    [BothBatting(SecondTab) EXCEPT
        !.sections = <<Sec("Mumbai", "Yet to bat"), Sec("Chennai", "Yet to bat")>>]

\* the chase has succeeded inside the overs: the status names the winner, the
\* first innings is closed and the second is not
ChaseWon ==
    [SecondInnings EXCEPT
        !.info = [NoInfo EXCEPT !.status = "Chennai won by 6 wickets"],
        !.sections = <<Sec("Mumbai", "185/6 (20.0)"), Sec("Chennai", "186/4 (19.2)")>>]

\* the same with the result shown by the winner's mark only
WinnerMarked ==
    [SecondInnings EXCEPT
        !.sections = <<Sec("Mumbai", "185/6 (20.0)"),
                       [Sec("Chennai", "186/4 (19.2)") EXCEPT !.nameWon = TRUE]>>]

Docs ==
    {FirstInnings, SecondInnings, Finished, TwoSlashes, DeclaredScore, UnreadRuns,
     NoCommentary, LooseCommentary, Blank, SixDown(LateOrderOpen), SixDown(TopOrderOpen),
     FirstTeamWaiting, BothBatting(FirstTab), BothBatting(SecondTab),
     BothBatting(FirstTabWithId), BeforeStart, ChaseWon, WinnerMarked}
    \cup {CommentaryDoc(n) : n \in ItemCounts}

Next == \E h \in Docs \cup {NoneHtml, EmptyHtml} : update(h)

Spec == Init /\ [][Next]_vars

(***************************************************************************)
(* Batting tables for the dismissal signals and the cross-check with the   *)
(* wickets: four batsmen, each with or without the three signals, the runs *)
(* in a few orders, and the wickets of the team's score.                   *)
(***************************************************************************)
BatsmanNames == <<"Sharma", "Kishan", "Yadav", "Tilak">>

\* the signals of a row: the text of the footnote row under it (Absent: no
\* such row), the classes of its name cell, and the strike-through
Sig(foot, cls, strike) == [foot |-> foot, cls |-> cls, strike |-> strike]

FirstRowSignals ==
    {Sig(f, c, st) : f \in {Absent, " b Jadeja "}, c \in {{}, {"ckt_dis"}}, st \in BOOLEAN}
    \cup {Sig(" Not out ", {}, FALSE), Sig(" Not out ", {"bold"}, FALSE)}

OtherRowSignals == {Sig(Absent, {}, FALSE), Sig("run out", {}, FALSE)}

SignalChoices ==
    {<<a, b, c, d>> : a \in FirstRowSignals, b \in OtherRowSignals,
                      c \in OtherRowSignals, d \in OtherRowSignals}

\* the runs cells from the top of the table down; "45*" is no number
RunsChoices ==
    {<<"40", "35", "20", "5">>, <<"5", "20", "35", "40">>, <<"20", "20", "20", "20">>,
     <<"45*", "35", "20", "5">>}

WicketsChoices == {"0", "1", "2", "3", "4"}

\* the rows of batsman k: the item row and, with a footnote, the row under it
BatsmanRows(k, runs, sig) ==
    <<[Batsman(BatsmanNames[k], runs[k]) EXCEPT !.nameCls = sig[k].cls,
                                                !.strike = sig[k].strike]>>
    \o (IF sig[k].foot # Absent THEN <<FootRow(sig[k].foot)>> ELSE <<>>)

BattingRows(runs, sig) ==
    <<BattingHeader>> \o BatsmanRows(1, runs, sig) \o BatsmanRows(2, runs, sig)
        \o BatsmanRows(3, runs, sig) \o BatsmanRows(4, runs, sig)

BattingDoc(runs, sig, wickets) ==
    [Blank EXCEPT
        !.sections = <<Sec("Mumbai", FormRWO("100", wickets, "12.0")),
                       Sec("Chennai", "Yet to bat")>>,
        !.tables = <<Tbl(0, 1, {"ckt_batsmen"}, BattingRows(runs, sig))>>]

BattingDocs ==
    {BattingDoc(runs, sig, wickets) :
        runs \in RunsChoices, sig \in SignalChoices, wickets \in WicketsChoices}

\* the first update() of a scraper, on one of these documents
FirstUpdate(h) == now = 0 /\ update(h)

NextBatting == \E h \in BattingDocs : FirstUpdate(h)

SpecBatting == Init /\ [][NextBatting]_vars

(***************************************************************************)
(* Bowling tables outside any tab, for the assignment by count: up to      *)
(* three tables, each plain or inside a .ckt_bowlers block, each with      *)
(* bowlers or with a header and a totals row only.  Both teams have a      *)
(* score, no innings is closed and the match is not over.                  *)
(***************************************************************************)
\* a bowlers' table that gives no bowler
NoBowlers == <<BowlingHeader, Row("item", <<"Total", "9.1", "0", "88", "2", "9.6">>)>>

BowlingRowChoices == {NoBowlers, ChennaiBowlingLater, MumbaiBowling}

\* a table of the page: its rows, and whether it stands in a .ckt_bowlers block
Slot(rows, inBlock) == [rows |-> rows, inBlock |-> inBlock]

Slots == {Slot(rows, inBlock) : rows \in BowlingRowChoices, inBlock \in BOOLEAN}

MaxTables == 3

SlotChoices ==
    UNION {[1..n -> Slots] : n \in 1..MaxTables}

\* table k stands in its own div, which is a .ckt_bowlers block or a plain one
BowlingDoc(slots) ==
    [Blank EXCEPT
        !.sections = <<Sec("Mumbai", "88/2 (9.1)"), Sec("Chennai", "45/1 (5.0)")>>,
        !.elems = [k \in 1..Len(slots) |->
                      Elem("", "", IF slots[k].inBlock THEN {"ckt_bowlers"} ELSE {},
                           0, 2 * k - 1)],
        !.tables = [k \in 1..Len(slots) |-> Tbl(k, 2 * k, {}, slots[k].rows)]]

BowlingDocs == {BowlingDoc(slots) : slots \in SlotChoices}

NextBowling == \E h \in BowlingDocs : FirstUpdate(h)

SpecBowling == Init /\ [][NextBowling]_vars

(***************************************************************************)
(* The scorecard view of get_scorecard                                     *)
(***************************************************************************)
\* team_has_batted: the stored score, lower-cased, is not 'yet to bat'
HasBatted(teams_data, team_key) ==
    Lower(Get(Get(teams_data, team_key, EmptyDict), "score", "")) # "yet to bat"

\* the batting lists shown: the team is in teams and has batted
ShownBatting(md) ==
    [k \in {k \in DOMAIN md.batting_stats :
                k \in DOMAIN md.teams
                /\ Lower(Get(md.teams[k], "score", "")) # "yet to bat"}
        |-> md.batting_stats[k]]

\* every bowling list shown
AllBowling(md) == md.bowling_stats

\* the bowling lists shown: the opposing team is in teams and has batted
ShownBowling(md) ==
    [k \in {k \in DOMAIN md.bowling_stats :
                OtherTeam(k) \in DOMAIN md.teams
                /\ Lower(Get(md.teams[OtherTeam(k)], "score", "")) # "yet to bat"}
        |-> md.bowling_stats[k]]

\* match_state, batting_team and bowling_team of the view
ViewState(md) ==
    IF HasBatted(md.teams, "team1") /\ ~HasBatted(md.teams, "team2")
    THEN <<"first_innings", "team1", "team2">>
    ELSE IF HasBatted(md.teams, "team1") /\ HasBatted(md.teams, "team2")
    THEN <<IF MatchCompleted(md) THEN "completed" ELSE "second_innings", "team2", "team1">>
    ELSE <<"in_progress", NoTeam, NoTeam>>

ScorecardView(md) ==
    [match_info |-> md.match_info,
     teams |-> md.teams,
     match_state |-> ViewState(md)[1],
     batting_team |-> ViewState(md)[2],
     bowling_team |-> ViewState(md)[3],
     batting_stats |-> ShownBatting(md),
     bowling_stats |-> ShownBowling(md),
     last_updated |-> md.last_updated]

(***************************************************************************)
(* The request handlers of the REST layer.  The server handles requests in *)
(* threads, so the steps of two handlers, and of the update() calls they   *)
(* make, interleave; a step is one statement of a handler or one extractor *)
(* call of update().                                                       *)
(***************************************************************************)
\* match_key = f"{match_id}_{tournament_id}"
MatchKey == "253699_8307"

\* what fetch_data can return to an update() of a handler: document 0 is None
ApiDocs == <<FirstInnings>>

Kinds == {"match", "refresh", "commentary", "scorecard"}

\* the positions inside update()
UpdatePcs == {"fetch", "info", "teams", "batting", "bowl_clear", "bowl_fill",
              "commentary", "finish"}

Threads == 1..NumThreads

\* the thread's record with the fields of e replaced
Move(t, e) == [threads EXCEPT ![t] = DictUpdate(@, e)]

\* a call of update() on scraper s begins; the handler goes on at cont
CallUpdate(t, s, cont) == [pc |-> "fetch", target |-> s, cont |-> cont]

\* a request arrives and a thread takes it
StartRequest(t) ==
    /\ threads[t].pc = "idle"
    /\ started < MaxRequests
    /\ \E kind \in Kinds : \E refresh \in BOOLEAN :
        /\ kind = "refresh" => refresh
        /\ threads' = Move(t, [pc |-> "check", kind |-> kind, refresh |-> refresh,
                               rid |-> started + 1])
    /\ started' = started + 1
    /\ UNCHANGED <<active_scrapers, scrapers, settled>>
    /\ UNCHANGED core_vars

\* if match_key not in active_scrapers: ... else: ...
CheckRegistered(t) ==
    /\ threads[t].pc = "check"
    /\ threads' =
        IF MatchKey \notin DOMAIN active_scrapers
        THEN Move(t, [pc |-> "create"])
        ELSE IF threads[t].refresh
        THEN Move(t, [scraper |-> active_scrapers[MatchKey]]
                        @@ CallUpdate(t, active_scrapers[MatchKey], "respond"))
        ELSE Move(t, [pc |-> "respond", scraper |-> active_scrapers[MatchKey]])
    /\ UNCHANGED <<active_scrapers, scrapers, settled, started>>
    /\ UNCHANGED core_vars

\* scraper = IPLScraper(match_id=..., tournament_id=...); scraper.update()
CreateScraper(t) ==
    /\ threads[t].pc = "create"
    /\ scrapers' = Put(scrapers, threads[t].rid, InitMatchData)
    /\ settled' = Put(settled, threads[t].rid, InitMatchData)
    /\ threads' = Move(t, [scraper |-> threads[t].rid]
                            @@ CallUpdate(t, threads[t].rid, "register"))
    /\ UNCHANGED <<active_scrapers, started>>
    /\ UNCHANGED core_vars

\* html_content = self.fetch_data(); if not html_content: return
FetchData(t) ==
    /\ threads[t].pc = "fetch"
    /\ \E d \in 0..Len(ApiDocs) :
        threads' = Move(t, [doc |-> d,
                            pc |-> IF d = 0 THEN threads[t].cont ELSE "info"])
    /\ UNCHANGED <<active_scrapers, scrapers, settled, started>>
    /\ UNCHANGED core_vars

\* one step of update() on the thread's target: match_data becomes md
UpdateStep(t, from, to, md) ==
    /\ threads[t].pc = from
    /\ scrapers' = [scrapers EXCEPT ![threads[t].target] = md]
    /\ threads' = Move(t, [pc |-> to])
    /\ UNCHANGED <<active_scrapers, settled, started>>
    /\ UNCHANGED core_vars

Target(t) == scrapers[threads[t].target]
Fetched(t) == ApiDocs[threads[t].doc]

ParseMatchInfo(t) ==
    threads[t].pc = "info"
    /\ UpdateStep(t, "info", "teams", parse_match_info(Target(t), Fetched(t)).md)

ParseTeams(t) ==
    threads[t].pc = "teams"
    /\ UpdateStep(t, "teams", "batting", parse_teams_and_scores(Target(t), Fetched(t)).md)

ParseBatting(t) ==
    threads[t].pc = "batting"
    /\ UpdateStep(t, "batting", "bowl_clear", parse_batting_stats(Target(t), Fetched(t)).md)

\* the first statements of parse_bowling_stats: the lists emptied
ClearBowling(t) ==
    threads[t].pc = "bowl_clear"
    /\ UpdateStep(t, "bowl_clear", "bowl_fill",
                  [Target(t) EXCEPT !.bowling_stats = EmptyBowling])

\* the rest of parse_bowling_stats
ParseBowling(t) ==
    threads[t].pc = "bowl_fill"
    /\ UpdateStep(t, "bowl_fill", "commentary", parse_bowling_stats(Target(t), Fetched(t)).md)

ParseCommentary(t) ==
    threads[t].pc = "commentary"
    /\ UpdateStep(t, "commentary", "finish", parse_commentary(Target(t), Fetched(t)).md)

\* the stamp (the number of the request stands for the time), the validator
\* and the return of update()
StampAndValidate(t) ==
    /\ threads[t].pc = "finish"
    /\ \E md \in {validate_data([Target(t) EXCEPT !.last_updated = threads[t].rid])} :
        /\ scrapers' = [scrapers EXCEPT ![threads[t].target] = md]
        /\ settled' = [settled EXCEPT ![threads[t].target] = md]
    /\ threads' = Move(t, [pc |-> threads[t].cont])
    /\ UNCHANGED <<active_scrapers, started>>
    /\ UNCHANGED core_vars

\* active_scrapers[match_key] = scraper; get_commentary and get_scorecard
\* then look at refresh
Register(t) ==
    /\ threads[t].pc = "register"
    /\ active_scrapers' = Put(active_scrapers, MatchKey, threads[t].scraper)
    /\ threads' =
        IF threads[t].kind \in {"commentary", "scorecard"} /\ threads[t].refresh
        THEN Move(t, CallUpdate(t, threads[t].scraper, "respond"))
        ELSE Move(t, [pc |-> "respond"])
    /\ UNCHANGED <<scrapers, settled, started>>
    /\ UNCHANGED core_vars

\* the scraper a handler reads for its response: get_match_data its local
\* variable, the others active_scrapers[match_key]
Read(t) ==
    IF threads[t].kind = "match" THEN threads[t].scraper ELSE active_scrapers[MatchKey]

\* the content of the response, taken from match_data md
Response(kind, md) ==
    CASE kind = "match" -> md
      [] kind = "refresh" -> md.last_updated
      [] kind = "commentary" -> md.commentary
      [] OTHER -> ScorecardView(md)

\* return jsonify(...): resp is what the handler reads, between what it would
\* have read from the state the last returned update() left
Respond(t) ==
    /\ threads[t].pc = "respond"
    /\ threads' = Move(t, [pc |-> "done",
                           resp |-> <<Response(threads[t].kind, scrapers[Read(t)])>>,
                           between |-> <<Response(threads[t].kind, settled[Read(t)])>>])
    /\ UNCHANGED <<active_scrapers, scrapers, settled, started>>
    /\ UNCHANGED core_vars

NextApi ==
    \E t \in Threads :
        \/ StartRequest(t) \/ CheckRegistered(t) \/ CreateScraper(t) \/ FetchData(t)
        \/ ParseMatchInfo(t) \/ ParseTeams(t) \/ ParseBatting(t) \/ ClearBowling(t)
        \/ ParseBowling(t) \/ ParseCommentary(t) \/ StampAndValidate(t)
        \/ Register(t) \/ Respond(t)

SpecApi == Init /\ [][NextApi]_vars

(***************************************************************************)
(* get_scorecard as a function of the MatchState it reads.  A scorecard    *)
(* request can meet the registered scraper in any combination of team      *)
(* scores and stored batting and bowling lists (an update() in progress    *)
(* has rewritten the teams and not yet the lists), so the registered       *)
(* scraper starts in each of them.                                         *)
(***************************************************************************)
ViewScores == {"Yet to bat", "88/2 (9.1)", "185/6 (20.0)"}

\* the status texts: none, and one that names the winner
ViewStatuses == {"", "Mumbai won by 20 runs"}

ViewSections ==
    {<<>>}
    \cup {<<Sec("Mumbai", a)>> : a \in ViewScores}
    \cup {<<Sec("Mumbai", a), Sec("Chennai", b)>> : a \in ViewScores, b \in ViewScores}

\* the teams as parse_teams_and_scores stores them
ViewTeams ==
    {parse_teams_and_scores(InitMatchData, [Blank EXCEPT !.sections = secs]).md.teams :
        secs \in ViewSections}

\* what an update() on a document stores
Stored(doc) == UpdateResult(InitMatchData, doc, 1).md

\* two batting lists and two bowling lists as update() stores them, one for
\* each team key
ViewBatting ==
    [k \in {"team1", "team2"} |->
        IF k = "team1" THEN Stored(SecondInnings).batting_stats["team1"]
        ELSE Stored(FirstInnings).batting_stats["team1"]]

ViewBowling ==
    [k \in {"team1", "team2"} |->
        IF k = "team1" THEN Stored(SecondInnings).bowling_stats["team1"]
        ELSE Stored(FirstInnings).bowling_stats["team2"]]

Restrict(f, S) == [k \in S |-> f[k]]

ViewStates ==
    {[InitMatchData EXCEPT !.teams = teams,
                           !.match_info.status = status,
                           !.batting_stats = Restrict(ViewBatting, bat),
                           !.bowling_stats = Restrict(ViewBowling, bowl)] :
        teams \in ViewTeams,
        status \in ViewStatuses,
        bat \in SUBSET {"team1", "team2"},
        bowl \in SUBSET {"team1", "team2"}}

InitView ==
    /\ match_data = InitMatchData
    /\ now = 0
    /\ html = [Blank EXCEPT !.kind = "Init"]
    /\ raised = {}
    /\ ran = <<>>
    /\ ret = "Init"
    /\ \E md \in ViewStates :
        /\ scrapers = (1 :> md)
        /\ settled = (1 :> md)
    /\ active_scrapers = (MatchKey :> 1)
    /\ threads = [t \in 1..NumThreads |-> Idle]
    /\ started = 0

\* get_scorecard without refresh on a registered key, from the lookup at line
\* 174 to the return
get_scorecard(t) ==
    /\ threads[t].pc = "idle"
    /\ started < MaxRequests
    /\ MatchKey \in DOMAIN active_scrapers
    /\ \E view \in {ScorecardView(scrapers[active_scrapers[MatchKey]])} :
        threads' = Move(t, [pc |-> "done", kind |-> "scorecard", rid |-> started + 1,
                            scraper |-> active_scrapers[MatchKey],
                            resp |-> <<view>>, between |-> <<view>>])
    /\ started' = started + 1
    /\ UNCHANGED <<active_scrapers, scrapers, settled>>
    /\ UNCHANGED core_vars

NextView == \E t \in Threads : get_scorecard(t)

SpecView == InitView /\ [][NextView]_vars

(***************************************************************************)
(* Properties                                                              *)
(***************************************************************************)
AllSteps == <<"match_info", "teams", "batting", "bowling", "commentary", "stamp", "validate">>

\* the section of match_data an extractor owns
Owned(md, name) ==
    CASE name = "teams" -> md.teams
      [] name = "batting" -> md.batting_stats
      [] name = "bowling" -> md.bowling_stats
      [] name = "commentary" -> md.commentary
      [] OTHER -> md.match_info

\* C1: a fetch that yields no markup (None or an empty body) leaves every part
\* of match_data, last_updated included, exactly as it was before the call,
\* whatever the state was and however many failed fetches came before.
C1_FailedFetchKeepsState == [][html'.kind # "Markup" => match_data' = match_data]_vars

\* two failed fetches in a row after a successful one, on a populated state
C1_Witness ==
    /\ html.kind \in {"None", "Empty"}
    /\ ret = "None"
    /\ now = 3
    /\ match_data.last_updated = 1
    /\ "team1" \in DOMAIN match_data.teams
    /\ Len(match_data.commentary) > 0

\* C2: after a successful fetch every extractor runs, in order, also after one
\* of them has raised; then the time is stamped, the validator runs and
\* update() returns match_data.
C2_CycleCompletes ==
    html.kind = "Markup" =>
        /\ ran = AllSteps
        /\ ret = "match_data"
        /\ match_data.last_updated = now

\* the batting extractor raised, the bowling extractor after it stored bowlers
C2_Witness ==
    /\ "batting" \in raised
    /\ ran = AllSteps
    /\ ret = "match_data"
    /\ match_data.last_updated = now
    /\ Len(match_data.bowling_stats["team2"]) > 0

\* C3: the section owned by an extractor that raised during an update has,
\* after the update, the value it had before the update.
C3_FailedSectionKept ==
    [][\A name \in raised' : Owned(match_data', name) = Owned(match_data, name)]_vars

C5_YetToBatStored ==
    \A i \in 1..2 :
        (/\ html.kind = "Markup"
         /\ i <= Len(html.sections)
         /\ html.sections[i].score # Absent
         /\ IsYetToBat(html.sections[i].score)) =>
            /\ TeamKeys[i] \in DOMAIN match_data.teams
            /\ DictUpdate(match_data.teams[TeamKeys[i]], YetToBatEntry)
                    = match_data.teams[TeamKeys[i]]
            /\ ~Get(match_data.teams[TeamKeys[i]], "innings_complete", FALSE)

\* the numeric value of the overs text is at least 20.0
OversAtLeast20(overs) ==
    /\ overs # ""
    /\ IsFloatLit(FirstToken(overs))
    /\ FloatFloor(FirstToken(overs)) >= 20

\* C6: a team with a parsed score (not "yet to bat") whose wickets are "10"
\* or whose overs are numerically at least 20.0 has innings_complete true.
C6_InningsComplete ==
    \A k \in DOMAIN match_data.teams :
        (/\ "score" \in DOMAIN match_data.teams[k]
         /\ ~IsYetToBat(match_data.teams[k].score)
         /\ \/ match_data.teams[k].wickets = "10"
            \/ OversAtLeast20(match_data.teams[k].overs)) =>
            Get(match_data.teams[k], "innings_complete", FALSE)

\* fifty overs with six wickets down: complete by the number, not by the text
C6_Witness ==
    /\ "team2" \in DOMAIN match_data.teams
    /\ "score" \in DOMAIN match_data.teams["team2"]
    /\ match_data.teams["team2"].overs = "50.0"
    /\ match_data.teams["team2"].wickets = "6"
    /\ match_data.teams["team2"].innings_complete

\* the bowler of the last call of _add_bowler_if_not_exists for the name
LatestParse(log, team, name) ==
    log[CHOOSE n \in 1..Len(log) :
            /\ log[n].team = team /\ log[n].bowler.name = name
            /\ \A m \in (n + 1)..Len(log) :
                    ~(log[m].team = team /\ log[m].bowler.name = name)].bowler

\* each list holds a name once, and every bowler parsed is there as parsed last
OncePerName(lists, log) ==
    /\ \A k \in DOMAIN lists : \A i, j \in 1..Len(lists[k]) :
            lists[k][i].name = lists[k][j].name => i = j
    /\ \A n \in 1..Len(log) : \E i \in 1..Len(lists[log[n].team]) :
            lists[log[n].team][i] = LatestParse(log, log[n].team, log[n].bowler.name)

\* C7: after an update each team's bowling list holds a name at most once,
\* and a name parsed several times in the update, from one table or from
\* several, stands there with the values of its last parse.
C7_OneEntryPerBowler ==
    [][html'.kind = "Markup" =>
          \A parsed \in {BowlingParsed(BeforeBowling(match_data, html').md, html')} :
              OncePerName(match_data'.bowling_stats, parsed.log)]_vars

\* Chahar is read from two tables for the same team; the later figures stay
C7_Witness ==
    /\ html = Finished
    /\ \E i \in 1..Len(match_data.bowling_stats["team1"]) :
            /\ match_data.bowling_stats["team1"][i].name = "Chahar"
            /\ match_data.bowling_stats["team1"][i].runs = "36"
    /\ \E i \in 1..Len(match_data.bowling_stats["team1"]) :
            /\ match_data.bowling_stats["team1"][i].name = "Bumrah"
            /\ match_data.bowling_stats["team1"][i].overs = "2"

\* C8: the commentary list never holds more than 20 entries.
C8_CommentaryBounded == Len(match_data.commentary) <= CommentaryLimit

\* a document with more than 20 items has left exactly 20 entries
C8_Witness ==
    /\ html.kind = "Markup"
    /\ Len(CommentaryItems(html)) > CommentaryLimit
    /\ Len(match_data.commentary) = CommentaryLimit

RECURSIVE OpenDepth(_, _, _)
\* the number of "(" left open from character i on, d being open already
OpenDepth(name, i, d) ==
    IF i > Len(name) THEN d
    ELSE IF Ch(name, i) = "(" THEN OpenDepth(name, i + 1, d + 1)
    ELSE IF Ch(name, i) = ")" /\ d > 0 THEN OpenDepth(name, i + 1, d - 1)
    ELSE OpenDepth(name, i + 1, d)

HasUnmatchedOpen(name) == OpenDepth(name, 1, 0) > 0

\* the batting names after the validator, against those the extractor left
NamesRepaired(before, after, Broken(_)) ==
    /\ DOMAIN after = DOMAIN before
    /\ \A k \in DOMAIN before :
        /\ Len(after[k]) = Len(before[k])
        /\ \A i \in 1..Len(before[k]) :
            after[k][i].name = IF Broken(before[k][i].name)
                               THEN before[k][i].name \o ")"
                               ELSE before[k][i].name

NoClosing(name) == HasCh(name, "(") /\ ~HasCh(name, ")")

\* C10 as written: the validator appends ")" to every batting name with an
\* opening parenthesis that has no matching closing one, and changes no other.
C10_UnmatchedClosed ==
    [][html'.kind = "Markup" =>
          \A parsed \in {parse_html(match_data, html')} :
              NamesRepaired(parsed.md.batting_stats, match_data'.batting_stats,
                            HasUnmatchedOpen)]_vars

\* what the validator does: it appends ")" to every batting name that holds a
\* "(" and no ")" at all, and changes no other name.
C10_OpenWithoutCloseClosed ==
    [][html'.kind = "Markup" =>
          \A parsed \in {parse_html(match_data, html')} :
              NamesRepaired(parsed.md.batting_stats, match_data'.batting_stats,
                            NoClosing)]_vars

\* "R. Sharma (c" has been closed; "Al (c) (wk", whose second "(" is left
\* open, stands as extracted
C10_Witness ==
    /\ html = FirstInnings
    /\ "team1" \in DOMAIN match_data.batting_stats
    /\ Len(match_data.batting_stats["team1"]) = 4
    /\ match_data.batting_stats["team1"][1].name = "R. Sharma (c)"
    /\ match_data.batting_stats["team1"][2].name = "Al (c) (wk"

\* the number of entries of a batting list that are out
Dismissed(entries) == Cardinality({i \in 1..Len(entries) : entries[i].dismissal # "not out"})

\* the document holds one batting table, it carries the BATTERS header and the
\* batting extractor has stored its rows without raising
OneTableStored ==
    /\ html.kind = "Markup"
    /\ "batting" \notin raised
    /\ Len(BattingTables(html)) = 1
    /\ IsBattingTable(HdrRows(BattingTables(html)[1].rows))
    /\ BattingFirstTeam(match_data) \in DOMAIN match_data.batting_stats

\* C11: when the wickets W of the team's score exceed the number of rows that
\* the dismissal signals flag as out (and the table has at least W rows), the
\* stored batting list has one entry per row and exactly W of them are out.
C11_OutCountReachesWickets ==
    OneTableStored =>
        \A W \in {IntOf(Get(Get(match_data.teams, BattingFirstTeam(match_data), EmptyDict),
                           "wickets", "0"))} :
        \A all \in {AllBatsmen(BattingTables(html)[1].rows, 1)} :
            (W > OutCount(all) /\ W <= Len(all)) =>
                /\ Len(match_data.batting_stats[BattingFirstTeam(match_data)]) = Len(all)
                /\ Dismissed(match_data.batting_stats[BattingFirstTeam(match_data)]) = W

\* six rows, four with a dismissal text, six wickets down: the two rows left
\* are the two highest scorers and stay not out, four entries are out
C11_Witness ==
    /\ html = SixDown(TopOrderOpen)
    /\ OneTableStored
    /\ OutCount(AllBatsmen(TopOrderOpen, 1)) = 4
    /\ match_data.teams["team1"].wickets = "6"
    /\ Len(match_data.batting_stats["team1"]) = 6
    /\ Dismissed(match_data.batting_stats["team1"]) = 4

\* the same with the two lowest scorers left open: both are marked, six are out
C11_LateOrderMarked ==
    html = SixDown(LateOrderOpen) =>
        /\ Len(match_data.batting_stats["team1"]) = 6
        /\ Dismissed(match_data.batting_stats["team1"]) = 6

\* C12: in every reachable state batting_stats has a key only for a team
\* whose stored score is not "yet to bat"; a team whose score is "yet to bat"
\* has no key.
C12_NoBattingBeforeBatting ==
    \A k \in DOMAIN match_data.batting_stats :
        ~IsYetToBat(Get(Get(match_data.teams, k, EmptyDict), "score", ""))

\* a batting table that falls to a team still to bat is passed over, and the
\* list the team had from an earlier document is gone
C12_Witness ==
    /\ html = FirstTeamWaiting
    /\ now > 1
    /\ "batting" \notin raised
    /\ IsBattingTable(HdrRows(BattingTables(html)[1].rows))
    /\ match_data.teams["team1"].score = "Yet to bat"
    /\ DOMAIN match_data.batting_stats = {}

\* the nearest of the five elements above the node that is a tab container,
\* 0 when none of them is
NearestTab(doc, node) ==
    LET tabs == {i \in 1..Len(node.up) :
                    /\ i <= TabLevels
                    /\ \/ doc.elems[node.up[i]].id \in {"tab_1", "tab_2"}
                       \/ doc.elems[node.up[i]].dataId \in {"ckt_fltr_0", "ckt_fltr_1"}}
    IN  IF tabs = {} THEN 0 ELSE node.up[CHOOSE i \in tabs : \A j \in tabs : i <= j]

IsFirstTab(e) == e.id = "tab_1" \/ e.dataId = "ckt_fltr_0"
IsSecondTab(e) == e.id = "tab_2" \/ e.dataId = "ckt_fltr_1"

BowlerNames(bowlers) == {bowlers[i].name : i \in 1..Len(bowlers)}

\* the names of the bowlers the rows of the node give
NamesOf(node) ==
    {BowlerOf(BowlerRows(node)[r])[1].name :
        r \in {r \in 1..Len(BowlerRows(node)) : Len(BowlerOf(BowlerRows(node)[r])) > 0}}

\* C13: with no current bowling team, the bowlers of every qualifying table
\* whose nearest tab container is a first tab (id tab_1 or data-id ckt_fltr_0)
\* stand under bowling_stats.team2, and those of a table under a second tab
\* (id tab_2 or data-id ckt_fltr_1) under bowling_stats.team1, whatever else
\* the container carries.
C13_TabDecidesTeam ==
    (html.kind = "Markup" /\ CurrentBowlingTeam(match_data) = NoTeam) =>
        \A nodes \in {BowlingTables(html)} : \A n \in 1..Len(nodes) :
            (IsBowlingTable(nodes[n]) /\ NearestTab(html, nodes[n]) # 0) =>
                \A tab \in {html.elems[NearestTab(html, nodes[n])]} :
                    /\ (IsFirstTab(tab) /\ ~IsSecondTab(tab)) =>
                            NamesOf(nodes[n]) \subseteq
                                BowlerNames(match_data.bowling_stats["team2"])
                    /\ (IsSecondTab(tab) /\ ~IsFirstTab(tab)) =>
                            NamesOf(nodes[n]) \subseteq
                                BowlerNames(match_data.bowling_stats["team1"])

\* the first tab carries the id "innings" next to data-id ckt_fltr_0: its
\* bowlers stand under team1 and team2 has none
C13_Witness ==
    /\ html = BothBatting(FirstTabWithId)
    /\ CurrentBowlingTeam(match_data) = NoTeam
    /\ BowlerNames(match_data.bowling_stats["team1"]) = {"Bumrah", "Boult"}
    /\ match_data.bowling_stats["team2"] = <<>>

\* a tab container that carries nothing but its data-id decides the team
C13_PlainTabs ==
    /\ html = BothBatting(FirstTab) =>
            BowlerNames(match_data.bowling_stats["team2"]) = {"Bumrah", "Boult"}
    /\ html = BothBatting(SecondTab) =>
            BowlerNames(match_data.bowling_stats["team1"]) = {"Bumrah", "Boult"}

\* the five sections of a, last_updated left aside
Sections(a) ==
    <<a.match_info, a.teams, a.batting_stats, a.bowling_stats, a.commentary>>

\* C14: after an update from a document, a second update from the same
\* document leaves match_info, teams, batting_stats, bowling_stats and
\* commentary as the first one left them, element for element.
C14_Idempotent ==
    [][html'.kind = "Markup" =>
          \A again \in {UpdateResult(match_data', html', now' + 1)} :
              Sections(again.md) = Sections(match_data')]_vars

\* the second innings read twice in a row onto a state left by another
\* document: all sections filled, and the third read changes none of them
C14_Witness ==
    /\ html = SecondInnings
    /\ now = 3
    /\ match_data.last_updated = 3
    /\ match_data.match_info.title = "IPL 2025"
    /\ Len(match_data.batting_stats["team1"]) > 0
    /\ Len(match_data.bowling_stats["team1"]) > 0
    /\ Len(match_data.commentary) = 1
    /\ Sections(UpdateResult(match_data, html, now + 1).md) = Sections(match_data)

\* the threads inside an update() call on scraper s
InFlight(s) == {t \in Threads : threads[t].pc \in UpdatePcs /\ threads[t].target = s}

\* C15: whatever the interleaving of requests for one match identity, at most
\* one update() call on a scraper of that identity is in flight at any time.
C15_OneUpdateInFlight == \A s \in DOMAIN scrapers : Cardinality(InFlight(s)) <= 1

\* two handlers are inside update() on the registered scraper, one of them
\* about to rebuild the bowling lists the other has not reached yet
C15_Witness ==
    /\ MatchKey \in DOMAIN active_scrapers
    /\ \E t, u \in Threads :
        /\ t # u
        /\ threads[t].target = active_scrapers[MatchKey]
        /\ threads[u].target = active_scrapers[MatchKey]
        /\ threads[t].pc = "bowl_fill"
        /\ threads[u].pc = "teams"

\* the handlers whose response carries content of match_data
ContentKinds == {"match", "commentary", "scorecard"}

\* C16: a request that returns content of match_data reads the state as the
\* last completed update() call left it, never a state an update() call in
\* progress has partly rebuilt.
C16_ReadsBetweenUpdates ==
    \A t \in Threads :
        (threads[t].pc = "done" /\ threads[t].kind \in ContentKinds) =>
            threads[t].resp = threads[t].between

\* a GET of the match returned empty bowling lists although the last completed
\* update() had left bowlers in them
C16_Witness ==
    \E t \in Threads :
        /\ threads[t].pc = "done"
        /\ threads[t].kind = "match"
        /\ Get(threads[t].resp[1].bowling_stats, "team2", <<>>) = <<>>
        /\ Len(Get(threads[t].between[1].bowling_stats, "team2", <<>>)) > 0

\* C17: for the match identity at most one scraper is ever constructed, and
\* the registered scraper is that one, so that a registered scraper is never
\* replaced by another instance.
C17_OneScraperPerIdentity ==
    /\ Cardinality(DOMAIN scrapers) <= 1
    /\ MatchKey \in DOMAIN active_scrapers =>
            active_scrapers[MatchKey] \in DOMAIN scrapers

\* the first request constructed, registered and answered from scraper 1, and
\* the registry now holds scraper 2 in its place
C17_Witness ==
    /\ MatchKey \in DOMAIN active_scrapers
    /\ active_scrapers[MatchKey] = 2
    /\ \E t \in Threads :
        /\ threads[t].pc = "done"
        /\ threads[t].rid = 1
        /\ threads[t].scraper = 1

\* the MatchState a finished scorecard request of thread t has read
ReadState(t) == scrapers[threads[t].scraper]

\* C18: the scorecard view holds a team's batting list only if that team's
\* score is not "yet to bat" and a team's bowling list only if the opposing
\* team's score is not "yet to bat"; what it holds is the stored list.
C18_ViewHidesSidesYetToBat ==
    \A t \in Threads :
        (threads[t].pc = "done" /\ threads[t].kind = "scorecard") =>
            /\ \A k \in DOMAIN threads[t].resp[1].batting_stats :
                /\ k \in DOMAIN ReadState(t).batting_stats
                /\ threads[t].resp[1].batting_stats[k] = ReadState(t).batting_stats[k]
                /\ Lower(Get(Get(ReadState(t).teams, k, EmptyDict), "score", ""))
                        # "yet to bat"
            /\ \A k \in DOMAIN threads[t].resp[1].bowling_stats :
                /\ k \in DOMAIN ReadState(t).bowling_stats
                /\ threads[t].resp[1].bowling_stats[k] = ReadState(t).bowling_stats[k]
                /\ Lower(Get(Get(ReadState(t).teams, OtherTeam(k), EmptyDict), "score", ""))
                        # "yet to bat"

\* the second team is yet to bat and the state holds batting and bowling lists
\* of both teams: the view shows the first team's batting and the second
\* team's bowling and hides the other two
C18_Witness ==
    \E t \in Threads :
        /\ threads[t].pc = "done"
        /\ threads[t].kind = "scorecard"
        /\ DOMAIN ReadState(t).teams = {"team1", "team2"}
        /\ ReadState(t).teams["team1"].score = "88/2"
        /\ ReadState(t).teams["team2"].score = "Yet to bat"
        /\ DOMAIN ReadState(t).batting_stats = {"team1", "team2"}
        /\ DOMAIN ReadState(t).bowling_stats = {"team1", "team2"}
        /\ Len(ReadState(t).batting_stats["team2"]) > 0
        /\ Len(ReadState(t).bowling_stats["team1"]) > 0
        /\ DOMAIN threads[t].resp[1].batting_stats = {"team1"}
        /\ DOMAIN threads[t].resp[1].bowling_stats = {"team2"}
        /\ Len(threads[t].resp[1].bowling_stats["team2"]) > 0

\* the stored score of team k says the team is yet to bat
YetToBat(md, k) ==
    Contains(Lower(Get(Get(md.teams, k, EmptyDict), "score", "")), "yet to bat")

\* C19: on the state the bowling extractor finds, the team that bowls is the
\* team yet to bat when exactly one team is yet to bat, and is unset when
\* both teams are yet to bat.
C19_YetToBatRule ==
    [][html'.kind = "Markup" =>
          \A md \in {BeforeBowling(match_data, html').md} :
              /\ (YetToBat(md, "team1") /\ ~YetToBat(md, "team2")) =>
                    CurrentBowlingTeam(md) = "team1"
              /\ (YetToBat(md, "team2") /\ ~YetToBat(md, "team1")) =>
                    CurrentBowlingTeam(md) = "team2"
              /\ (YetToBat(md, "team1") /\ YetToBat(md, "team2")) =>
                    CurrentBowlingTeam(md) = NoTeam]_vars

\* both teams are yet to bat and the resolver named team2: the table under
\* the second tab, which belongs to team1, was skipped and no bowler stored
C19_Witness ==
    /\ html = BeforeStart
    /\ "bowling" \notin raised
    /\ YetToBat(match_data, "team1")
    /\ YetToBat(match_data, "team2")
    /\ CurrentBowlingTeam(match_data) = "team2"
    /\ match_data.bowling_stats = EmptyBowling

\* with exactly one team yet to bat the resolver names that team
C19_ExactlyOneYetToBat ==
    [][html'.kind = "Markup" =>
          \A md \in {BeforeBowling(match_data, html').md} :
              /\ (YetToBat(md, "team1") /\ ~YetToBat(md, "team2")) =>
                    CurrentBowlingTeam(md) = "team1"
              /\ (YetToBat(md, "team2") /\ ~YetToBat(md, "team1")) =>
                    CurrentBowlingTeam(md) = "team2"]_vars

\* innings_complete of team k, False when the entry has none
Closed(md, k) == Get(Get(md.teams, k, EmptyDict), "innings_complete", FALSE)

\* the status text, lower-cased, holds one of the completion markers
StatusSaysOver(md) ==
    \E marker \in {"won by", "match tied", "won the match", "match over"} :
        Contains(Lower(Get(md.match_info, "status", "")), marker)

\* C20: on the state the bowling extractor finds, when neither team is yet to
\* bat, the team that bowls is unset if the status holds a completion marker
\* or a team's won flag is set; otherwise it is the one team whose innings is
\* complete, and unset when both or neither innings is complete.
C20_CompletionBeforeInnings ==
    [][html'.kind = "Markup" =>
          \A md \in {BeforeBowling(match_data, html').md} :
              (~YetToBat(md, "team1") /\ ~YetToBat(md, "team2")) =>
                  CurrentBowlingTeam(md) =
                      IF StatusSaysOver(md) \/ AnyWon(md.teams) THEN NoTeam
                      ELSE IF Closed(md, "team1") /\ ~Closed(md, "team2") THEN "team1"
                      ELSE IF Closed(md, "team2") /\ ~Closed(md, "team1") THEN "team2"
                      ELSE NoTeam]_vars

\* the status names the winner while only the first innings is closed: the
\* team is unset and the tables of both tabs are stored
C20_Witness ==
    /\ html = ChaseWon
    /\ "bowling" \notin raised
    /\ StatusSaysOver(match_data)
    /\ ~AnyWon(match_data.teams)
    /\ Closed(match_data, "team1")
    /\ ~Closed(match_data, "team2")
    /\ CurrentBowlingTeam(match_data) = NoTeam
    /\ Len(match_data.bowling_stats["team1"]) > 0
    /\ Len(match_data.bowling_stats["team2"]) > 0

\* the three other cases: the winner's mark alone, one closed innings in a
\* match still on, and no closed innings
C20_OtherCases ==
    /\ html = WinnerMarked =>
            /\ AnyWon(match_data.teams)
            /\ ~StatusSaysOver(match_data)
            /\ CurrentBowlingTeam(match_data) = NoTeam
    /\ html = SecondInnings =>
            /\ Closed(match_data, "team1")
            /\ CurrentBowlingTeam(match_data) = "team1"
    /\ (/\ html = BothBatting(FirstTab)
        /\ ~AnyWon(match_data.teams)
        /\ ~StatusSaysOver(match_data)
        /\ ~Closed(match_data, "team1")
        /\ ~Closed(match_data, "team2")) =>
            CurrentBowlingTeam(match_data) = NoTeam

\* the entries of a bowling list that were read from a table
FromTable(bowlers) ==
    {i \in 1..Len(bowlers) : ~Get(bowlers[i], "inferred", FALSE)}

\* C21: after an update from a document in which the resolver named a team,
\* the other team's bowling list holds no entry read from a table; and while
\* team2 is yet to bat the bowling list of team1 is empty.
C21_OtherSideNotParsed ==
    [][html'.kind = "Markup" =>
          /\ \A X \in {CurrentBowlingTeam(BeforeBowling(match_data, html').md)} :
                X # NoTeam => FromTable(match_data'.bowling_stats[OtherTeam(X)]) = {}
          /\ YetToBat(match_data', "team2") => match_data'.bowling_stats["team1"] = <<>>]_vars

\* the second innings: the resolver named team1, the table of the first tab,
\* which is team2's, was skipped, and team1 holds the bowlers of its table
C21_Witness ==
    /\ html = SecondInnings
    /\ "bowling" \notin raised
    /\ CurrentBowlingTeam(match_data) = "team1"
    /\ match_data.bowling_stats["team2"] = <<>>
    /\ BowlerNames(match_data.bowling_stats["team1"]) = {"Bumrah", "Boult"}

\* team k has batted: its score is present and does not say yet to bat
Batted(md, k) ==
    Get(Get(md.teams, k, EmptyDict), "score", "") # "" /\ ~YetToBat(md, k)

\* the placeholder the claim describes for the innings of team k
InningsPlaceholder(md, k) ==
    [name |-> "Bowling data not available",
     overs |-> md.teams[k].overs,
     maidens |-> "0",
     runs |-> md.teams[k].runs,
     wickets |-> md.teams[k].wickets,
     economy |-> "0.00",
     inferred |-> TRUE]

\* no table gave a bowler in the last update
NothingParsed(md) ==
    /\ DOMAIN md.bowling_stats = {"team1", "team2"}
    /\ FromTable(md.bowling_stats["team1"]) = {}
    /\ FromTable(md.bowling_stats["team2"]) = {}

\* C22: when no table gave a bowler for either team, every team that has
\* batted has one placeholder, in the list of the team bowling to it, named
\* "Bowling data not available", inferred, with that team's runs, wickets
\* and overs.
C22_PlaceholderPerBattedTeam ==
    (html.kind = "Markup" /\ "bowling" \notin raised /\ NothingParsed(match_data)) =>
        \A k \in {"team1", "team2"} :
            Batted(match_data, k) =>
                match_data.bowling_stats[OtherTeam(k)] = <<InningsPlaceholder(match_data, k)>>

\* the second team has batted, its batting table was not stored, no bowling
\* table was found, and no placeholder stands for its innings
C22_Witness ==
    /\ html = FirstTeamWaiting
    /\ "bowling" \notin raised
    /\ Batted(match_data, "team2")
    /\ Get(match_data.batting_stats, "team2", <<>>) = <<>>
    /\ match_data.bowling_stats = EmptyBowling

\* a team that has batted and has stored batting entries does get the
\* placeholder
C22_WithBattingEntries ==
    (html.kind = "Markup" /\ "bowling" \notin raised /\ NothingParsed(match_data)) =>
        \A k \in {"team1", "team2"} :
            (Batted(match_data, k) /\ Len(Get(match_data.batting_stats, k, <<>>)) > 0) =>
                match_data.bowling_stats[OtherTeam(k)] = <<InningsPlaceholder(match_data, k)>>

\* a placeholder has been stored from the first team's score
C22_PlaceholderStored ==
    /\ html = SixDown(LateOrderOpen)
    /\ match_data.bowling_stats["team2"] = <<InningsPlaceholder(match_data, "team1")>>
    /\ match_data.bowling_stats["team2"][1].runs = "185"

\* C23: the scorecard view names as bowling_team the team the resolver names
\* on the same state, and as batting_team its opponent, whenever the resolver
\* names one; and its match_state is "completed" exactly when the completion
\* test holds and neither team is yet to bat.
C23_ViewAgreesWithResolver ==
    \A t \in Threads :
        (threads[t].pc = "done" /\ threads[t].kind = "scorecard") =>
            /\ \A X \in {CurrentBowlingTeam(ReadState(t))} :
                X # NoTeam =>
                    /\ threads[t].resp[1].bowling_team = X
                    /\ threads[t].resp[1].batting_team = OtherTeam(X)
            /\ threads[t].resp[1].match_state = "completed" <=>
                    /\ MatchCompleted(ReadState(t))
                    /\ ~YetToBat(ReadState(t), "team1")
                    /\ ~YetToBat(ReadState(t), "team2")

\* the first team is yet to bat and the second is batting: the resolver names
\* team1, the view names no team
C23_Witness ==
    \E t \in Threads :
        /\ threads[t].pc = "done"
        /\ threads[t].kind = "scorecard"
        /\ YetToBat(ReadState(t), "team1")
        /\ Batted(ReadState(t), "team2")
        /\ CurrentBowlingTeam(ReadState(t)) = "team1"
        /\ threads[t].resp[1].bowling_team = NoTeam
        /\ threads[t].resp[1].match_state = "in_progress"

\* where the two agree: the first innings, and the second innings after a
\* closed first one
C23_AgreeingCases ==
    \A t \in Threads :
        (threads[t].pc = "done" /\ threads[t].kind = "scorecard") =>
            /\ (Batted(ReadState(t), "team1") /\ YetToBat(ReadState(t), "team2")) =>
                    /\ CurrentBowlingTeam(ReadState(t)) = "team2"
                    /\ threads[t].resp[1].bowling_team = "team2"
                    /\ threads[t].resp[1].batting_team = "team1"
            /\ (CurrentBowlingTeam(ReadState(t)) = "team1" /\ ~YetToBat(ReadState(t), "team1")) =>
                    /\ threads[t].resp[1].bowling_team = "team1"
                    /\ threads[t].resp[1].batting_team = "team2"

\* the three signals of row i: the text of the footnote in the row under it
\* when that text does not say not out, a dismissed-style class on the name
\* cell, strike-through markup in the name cell
FootText(rows, i) ==
    IF i < Len(rows) /\ rows[i + 1].foot # Absent THEN Strip(rows[i + 1].foot) ELSE ""

FootSignal(rows, i) ==
    FootText(rows, i) # "" /\ ~Contains(Lower(FootText(rows, i)), "not out")

ClassSignal(row) == row.nameCls \cap {"bold", "ckt_dis"} # {}

StrikeSignal(row) == row.strike

\* the batsman rows of a table: the item rows that give a batsman
BatsmanRowsOf(rows) ==
    {i \in 1..Len(rows) : rows[i].kind = "item" /\ BatsmanOf(rows, i) # <<>>}

\* C24: before the cross-check with the wickets, a batsman row is flagged
\* out exactly when one of the three signals is present; its dismissal is
\* the footnote text when the footnote signal is present, "out" when only
\* the other signals are, and "not out" when none is.
C24_SignalsFlagOut ==
    html.kind = "Markup" =>
        \A t \in 1..Len(html.tables) :
            \A i \in BatsmanRowsOf(html.tables[t].rows) :
                \A b \in {BatsmanOf(html.tables[t].rows, i)[1]} :
                    /\ b.is_out <=> \/ FootSignal(html.tables[t].rows, i)
                                    \/ ClassSignal(html.tables[t].rows[i])
                                    \/ StrikeSignal(html.tables[t].rows[i])
                    /\ b.dismissal =
                        IF FootSignal(html.tables[t].rows, i)
                        THEN FootText(html.tables[t].rows, i)
                        ELSE IF b.is_out THEN "out" ELSE "not out"

\* the first batsman carries all three signals and no dismissal is inferred:
\* the stored entry holds the footnote text; the second carries none
C24_Witness ==
    /\ html \in BattingDocs
    /\ "batting" \notin raised
    /\ FootSignal(html.tables[1].rows, 2)
    /\ ClassSignal(html.tables[1].rows[2])
    /\ StrikeSignal(html.tables[1].rows[2])
    /\ Get(match_data.teams["team1"], "wickets", "") = "0"
    /\ Len(match_data.batting_stats["team1"]) = 4
    /\ match_data.batting_stats["team1"][1].dismissal = "b Jadeja"
    /\ match_data.batting_stats["team1"][2].dismissal = "not out"

\* the table row of the k-th batsman of a table
RowOfBatsman(rows, k) ==
    CHOOSE i \in BatsmanRowsOf(rows) :
        Cardinality({j \in BatsmanRowsOf(rows) : j < i}) = k - 1

\* the k-th batsman of the table is flagged out by a signal
Flagged(rows, k) ==
    \/ FootSignal(rows, RowOfBatsman(rows, k))
    \/ ClassSignal(rows[RowOfBatsman(rows, k)])
    \/ StrikeSignal(rows[RowOfBatsman(rows, k)])

\* the batsmen of the first table whose stored entry is out without a signal
NewlyMarked(md, doc) ==
    {k \in 1..Len(md.batting_stats["team1"]) :
        /\ md.batting_stats["team1"][k].dismissal # "not out"
        /\ ~Flagged(doc.tables[1].rows, k)}

\* the first table of the document was stored for team1, one entry a batsman
TableStored(md, doc) ==
    /\ doc.kind = "Markup"
    /\ Len(doc.tables) > 0
    /\ "team1" \in DOMAIN md.batting_stats
    /\ Len(md.batting_stats["team1"]) > 0
    /\ Len(md.batting_stats["team1"]) = Cardinality(BatsmanRowsOf(doc.tables[1].rows))

\* T is a pair of two highest scorers among the entries
TopTwo(entries, T) ==
    /\ T \subseteq 1..Len(entries)
    /\ Cardinality(T) = 2
    /\ \A i \in T : \A j \in (1..Len(entries)) \ T :
            IntOf(entries[j].runs) <= IntOf(entries[i].runs)

BeforeCrossCheck(doc, k) ==
    BatsmanOf(doc.tables[1].rows, RowOfBatsman(doc.tables[1].rows, k))[1]

\* the number of batsmen of the first table flagged out by a signal
FlaggedCount(doc) ==
    Cardinality({k \in 1..Cardinality(BatsmanRowsOf(doc.tables[1].rows)) :
                    Flagged(doc.tables[1].rows, k)})

\* the stored entry of the k-th batsman keeps what the row and the signals
\* gave: the figures, and the dismissal of a flagged row; with no more
\* wickets than flagged rows it also keeps "not out"
KeptByCrossCheck(md, doc, k) ==
    /\ k <= Len(Get(md.batting_stats, "team1", <<>>))
    /\ \A b \in {BeforeCrossCheck(doc, k)} : \A e \in {md.batting_stats["team1"][k]} :
        /\ e.name = b.name
        /\ e.runs = b.runs
        /\ e.balls = b.balls
        /\ e.fours = b.fours
        /\ e.sixes = b.sixes
        /\ e.strike_rate = b.strike_rate
        /\ b.is_out => e.dismissal = b.dismissal
        /\ (IsIntLit(md.teams["team1"].wickets)
            /\ IntOf(md.teams["team1"].wickets) <= FlaggedCount(doc)) =>
                e.dismissal = b.dismissal

\* C30: the cross-check with the wickets only adds dismissals: after the
\* update every batsman of the table has his entry with the runs, balls,
\* fours, sixes and strike rate of his row, a row flagged out by a signal
\* keeps its dismissal, and with no more wickets than flagged rows every
\* entry is as the signals left it.
C30_OnlyAddsDismissals ==
    (html.kind = "Markup" /\ Len(html.tables) > 0) =>
        \A k \in 1..Cardinality(BatsmanRowsOf(html.tables[1].rows)) :
            KeptByCrossCheck(match_data, html, k)

\* the first batsman is out by his footnote, his runs cell reads "45*" and
\* four wickets are down: the cross-check raised and no entry of the table
\* is stored
C30_Witness ==
    /\ html.kind = "Markup"
    /\ "batting" \in raised
    /\ html.tables[1].rows[2].cells[2] = "45*"
    /\ FootSignal(html.tables[1].rows, 2)
    /\ match_data.teams["team1"].wickets = "4"
    /\ FlaggedCount(html) = 1
    /\ match_data.batting_stats["team1"] = <<>>

\* with every runs cell a number the entries are kept as the claim says
C30_WithReadableRuns ==
    (/\ html.kind = "Markup"
     /\ Len(html.tables) > 0
     /\ \A i \in BatsmanRowsOf(html.tables[1].rows) :
            IsIntLit(Strip(html.tables[1].rows[i].cells[2]))) =>
        \A k \in 1..Cardinality(BatsmanRowsOf(html.tables[1].rows)) :
            KeptByCrossCheck(match_data, html, k)

\* two rows flagged, one wicket recorded: nothing is changed
C30_ExcessLeft ==
    /\ html.kind = "Markup"
    /\ FlaggedCount(html) = 2
    /\ match_data.teams["team1"].wickets = "1"
    /\ Len(match_data.batting_stats["team1"]) = 4
    /\ Cardinality({k \in 1..4 : match_data.batting_stats["team1"][k].dismissal # "not out"}) = 2

\* the places of the candidate list whose node passes the bowling-table test
QualifyingPlaces(nodes) == {n \in 1..Len(nodes) : IsBowlingTable(nodes[n])}

\* the next qualifying place after a that holds another table than a's
NextTableAfter(nodes, a) ==
    {b \in QualifyingPlaces(nodes) :
        /\ b > a
        /\ nodes[b].rows # nodes[a].rows
        /\ \A c \in QualifyingPlaces(nodes) :
              (a < c /\ c < b) => nodes[c].rows = nodes[a].rows}

\* C26: with no current bowling team and no qualifying table inside a tab,
\* the bowlers of the first qualifying table stand under bowling_stats.team2
\* and those of the next qualifying table under bowling_stats.team1, also
\* when the first table gives no bowler.
C26_AssignedByPosition ==
    (html.kind = "Markup" /\ CurrentBowlingTeam(match_data) = NoTeam) =>
        \A nodes \in {BowlingTables(html)} :
            (/\ QualifyingPlaces(nodes) # {}
             /\ \A n \in QualifyingPlaces(nodes) : NearestTab(html, nodes[n]) = 0) =>
                \A a \in {CHOOSE a \in QualifyingPlaces(nodes) :
                             \A n \in QualifyingPlaces(nodes) : a <= n} :
                    /\ NamesOf(nodes[a]) \subseteq
                            BowlerNames(match_data.bowling_stats["team2"])
                    /\ \A b \in NextTableAfter(nodes, a) :
                            NamesOf(nodes[b]) \subseteq
                                BowlerNames(match_data.bowling_stats["team1"])

\* a plain table with a header and a totals row only, then a plain table
\* with two bowlers: the two bowlers stand under team2 and team1 has none
C26_Witness ==
    /\ html = BowlingDoc(<<Slot(NoBowlers, FALSE), Slot(ChennaiBowlingLater, FALSE)>>)
    /\ CurrentBowlingTeam(match_data) = NoTeam
    /\ BowlerNames(match_data.bowling_stats["team2"]) = {"Pathirana", "Chahar"}
    /\ match_data.bowling_stats["team1"] = <<>>

\* when every candidate is collected once and the first qualifying table
\* gives a bowler, the first table is team2's and each later one team1's
C26_WhenFirstGivesBowlers ==
    (html.kind = "Markup" /\ CurrentBowlingTeam(match_data) = NoTeam) =>
        \A nodes \in {BowlingTables(html)} :
            (/\ QualifyingPlaces(nodes) # {}
             /\ \A n \in QualifyingPlaces(nodes) : NearestTab(html, nodes[n]) = 0
             /\ \A m, n \in 1..Len(nodes) : nodes[m].pos = nodes[n].pos => m = n) =>
                \A a \in {CHOOSE a \in QualifyingPlaces(nodes) :
                             \A n \in QualifyingPlaces(nodes) : a <= n} :
                    NamesOf(nodes[a]) # {} =>
                        /\ NamesOf(nodes[a]) \subseteq
                                BowlerNames(match_data.bowling_stats["team2"])
                        /\ \A b \in QualifyingPlaces(nodes) : b > a =>
                                NamesOf(nodes[b]) \subseteq
                                    BowlerNames(match_data.bowling_stats["team1"])

\* two plain tables with bowlers: the first under team2, the second under team1
C26_TwoTablesSplit ==
    /\ html = BowlingDoc(<<Slot(ChennaiBowlingLater, FALSE), Slot(MumbaiBowling, FALSE)>>)
    /\ BowlerNames(match_data.bowling_stats["team2"]) = {"Pathirana", "Chahar"}
    /\ BowlerNames(match_data.bowling_stats["team1"]) = {"Bumrah", "Boult"}

\* the places of the candidate list that hold the rows of table t
PlacesOf(nodes, t) == {n \in 1..Len(nodes) : nodes[n].rows = t.rows}

\* no other table of the document gives a bowler of table t
OnlyTableOfItsBowlers(doc, t) ==
    \A u \in 1..Len(doc.tables) :
        u # t => NamesOf(TableNode(doc, doc.tables[u])) \cap NamesOf(TableNode(doc, doc.tables[t])) = {}

\* C29: with no current bowling team, the bowlers of one qualifying table
\* outside any tab stand under exactly one of bowling_stats.team1 and
\* bowling_stats.team2, however many times the table was collected into the
\* candidate list.
C29_OneTeamPerTable ==
    (html.kind = "Markup" /\ CurrentBowlingTeam(match_data) = NoTeam) =>
        \A t \in 1..Len(html.tables) :
            (/\ IsBowlingTable(TableNode(html, html.tables[t]))
             /\ NearestTab(html, TableNode(html, html.tables[t])) = 0
             /\ NamesOf(TableNode(html, html.tables[t])) # {}
             /\ PlacesOf(BowlingTables(html), html.tables[t]) # {}
             /\ OnlyTableOfItsBowlers(html, t)) =>
                \E k \in {"team1", "team2"} :
                    /\ NamesOf(TableNode(html, html.tables[t])) \subseteq
                            BowlerNames(match_data.bowling_stats[k])
                    /\ NamesOf(TableNode(html, html.tables[t])) \cap
                            BowlerNames(match_data.bowling_stats[OtherTeam(k)]) = {}

\* one table inside a .ckt_bowlers block and no tab: the table is collected
\* three times and its two bowlers stand under team2 and under team1
C29_Witness ==
    /\ html = BowlingDoc(<<Slot(MumbaiBowling, TRUE)>>)
    /\ CurrentBowlingTeam(match_data) = NoTeam
    /\ Cardinality(PlacesOf(BowlingTables(html), html.tables[1])) = 3
    /\ BowlerNames(match_data.bowling_stats["team2"]) = {"Bumrah", "Boult"}
    /\ BowlerNames(match_data.bowling_stats["team1"]) = {"Bumrah", "Boult"}

\* a table collected once stands under one team only
C29_CollectedOnce ==
    (html.kind = "Markup" /\ CurrentBowlingTeam(match_data) = NoTeam) =>
        \A t \in 1..Len(html.tables) :
            (/\ IsBowlingTable(TableNode(html, html.tables[t]))
             /\ NearestTab(html, TableNode(html, html.tables[t])) = 0
             /\ NamesOf(TableNode(html, html.tables[t])) # {}
             /\ \A n \in 1..Len(BowlingTables(html)) :
                    Cardinality(PlacesOf(BowlingTables(html), BowlingTables(html)[n])) = 1
             /\ OnlyTableOfItsBowlers(html, t)) =>
                \E k \in {"team1", "team2"} :
                    /\ NamesOf(TableNode(html, html.tables[t])) \subseteq
                            BowlerNames(match_data.bowling_stats[k])
                    /\ NamesOf(TableNode(html, html.tables[t])) \cap
                            BowlerNames(match_data.bowling_stats[OtherTeam(k)]) = {}

\* the four sections the mapping from markup is said to decide
Mapped(a) == <<a.teams, a.batting_stats, a.bowling_stats, a.commentary>>

\* C27: a successful update leaves teams, batting_stats, bowling_stats and
\* commentary as a successful update on the same document leaves them in a
\* freshly constructed MatchState, whatever the state held before.
C27_IndependentOfHistory ==
    [][(html'.kind = "Markup" /\ ret' = "match_data") =>
          \A fresh \in {UpdateResult(InitMatchData, html', now')} :
              fresh.ret = "match_data" => Mapped(fresh.md) = Mapped(match_data')]_vars

\* the innings of Mumbai was stored as complete; the document now holds a
\* first section without a name node that reads "Yet to bat": the entry keeps
\* the name and the true flag of the earlier document, while the same
\* document read into a fresh MatchState leaves no team1 entry
C27_Witness ==
    /\ html = [Blank EXCEPT !.sections = <<Sec(Absent, "Yet to bat"),
                                           Sec("Chennai", "Yet to bat")>>]
    /\ ret = "match_data"
    /\ "team1" \in DOMAIN match_data.teams
    /\ match_data.teams["team1"].name = "Mumbai"
    /\ match_data.teams["team1"].score = "Yet to bat"
    /\ Get(match_data.teams["team1"], "innings_complete", FALSE)
    /\ "team1" \notin DOMAIN Stored(html).teams

\* a document that names both teams and holds commentary nodes, read with
\* no extractor raising, gives the four sections of a fresh MatchState
C27_WhenAllFound ==
    [][(/\ html'.kind = "Markup"
        /\ ret' = "match_data"
        /\ raised' = {}
        /\ Len(html'.sections) >= 2
        /\ \A i \in 1..2 : html'.sections[i].name # Absent
        /\ Len(CommentaryItems(html')) > 0 \/ InnerNodes(html') > 0) =>
          \A fresh \in {UpdateResult(InitMatchData, html', now')} :
              fresh.raised = {} => Mapped(fresh.md) = Mapped(match_data')]_vars

\* the entry is a placeholder of _infer_missing_bowling_stats
Inferred(entry) == "inferred" \in DOMAIN entry /\ entry.inferred

\* C28: in every reachable MatchState, if some bowling entry of either team
\* has inferred = true, then each team's bowling list has at most one entry
\* and every entry of every list has the flag.
C28_PlaceholdersStandAlone ==
    (\E k \in DOMAIN match_data.bowling_stats :
        \E i \in 1..Len(match_data.bowling_stats[k]) :
            Inferred(match_data.bowling_stats[k][i])) =>
        \A k \in DOMAIN match_data.bowling_stats :
            /\ Len(match_data.bowling_stats[k]) <= 1
            /\ \A i \in 1..Len(match_data.bowling_stats[k]) :
                    Inferred(match_data.bowling_stats[k][i])

\* an update that found bowlers under team2 follows one that stored a
\* placeholder there: the placeholder is gone and only parsed entries stand
C28_Witness ==
    /\ now >= 2
    /\ html = FirstInnings
    /\ Len(match_data.bowling_stats["team2"]) > 1
    /\ \A i \in 1..Len(match_data.bowling_stats["team2"]) :
            ~Inferred(match_data.bowling_stats["team2"][i])
    /\ match_data.bowling_stats["team1"] = <<>>

\* a placeholder stored for team2 with nothing next to it
C28_PlaceholderAlone ==
    /\ html = SixDown(LateOrderOpen)
    /\ Len(match_data.bowling_stats["team2"]) = 1
    /\ Inferred(match_data.bowling_stats["team2"][1])
    /\ match_data.bowling_stats["team1"] = <<>>

====
